---- MODULE Spec2Model ----
(***************************************************************************)
(* A model of theflow's execution core: the attribute engine of            *)
(* theflow/base.py (Attr, ParamAttr, NodeAttr), the call protocol of       *)
(* Function.__call__ with its middleware chain, the pool helper of         *)
(* utils/multiprocess.py and the Context store.                            *)
(***************************************************************************)
EXTENDS Integers, Sequences, FiniteSets, TLC

(***************************************************************************)
(* Bounds of the model.                                                    *)
(***************************************************************************)
\* object identities (addresses returned by id()) range over 0..MaxId
MaxId == 3
\* values a caller assigns to a param range over 0..MaxVal
MaxVal == 1

\* run ids a root call may be given range over 0..MaxRun
MaxRun == 1
\* a parent's run invokes one child slot up to MaxDup times
MaxDup == 2
\* the values passed to a call range over 0..MaxArg
MaxArg == 1
\* cache/memcached.py:75 retries 20 times; the model retries MaxTry times
MaxTry == 2
MaxThread == 3

Ids == 0..MaxId
SetVals == 0..MaxVal
RunIds == 0..MaxRun

(***************************************************************************)
(* Objects.  An object is a value together with its identity id(obj); w    *)
(* tells that it is the `exec` closure _prepare_child wraps a node in.     *)
(***************************************************************************)
\* id(unset): the `unset` singleton of base.py:76 has one identity for ever
UnsetId == -2
\* the default of `.get(target, -1)` in _auto_calculate_param
NoId == -1

Unset == [v |-> -1, id |-> UnsetId, w |-> FALSE]
\* marks a name that is not a key of obj._attrx[...]
Absent == [v |-> -2, id |-> -3, w |-> FALSE]

Obj(v, i) == [v |-> v, id |-> i, w |-> FALSE]

(***************************************************************************)
(* Component types.  Each is one of the types of the repository's tests;   *)
(* a field spec records the descriptor class, which of default /           *)
(* default_callback / auto_callback is set, cache, depends_on, and for a    *)
(* callback the field it reads and the function it applies.                *)
(***************************************************************************)
Fields == {"x", "y", "z"}
\* dir(cls) lists attribute names in sorted order
FieldOrder == <<"x", "y", "z">>

Types == {"FlowDepend", "Flow", "FlowNoCache", "Cyc2", "Cyc3", "Chain", "Func"}

NoSpec == [attr |-> "none", kind |-> "none", dflt |-> 0, cache |-> FALSE,
           deps |-> <<>>, src |-> "x", fn |-> "none"]

Plain(dflt) == [attr |-> "ParamAttr", kind |-> "fixed", dflt |-> dflt, cache |-> FALSE,
                deps |-> <<>>, src |-> "x", fn |-> "none"]

NoDefault(attr) == [attr |-> attr, kind |-> "unset", dflt |-> 0, cache |-> FALSE,
                    deps |-> <<>>, src |-> "x", fn |-> "none"]

DefaultCb(src, fn) == [attr |-> "ParamAttr", kind |-> "defcb", dflt |-> 0, cache |-> FALSE,
                       deps |-> <<>>, src |-> src, fn |-> fn]

Auto(attr, cache, deps, src, fn) == [attr |-> attr, kind |-> "auto", dflt |-> 0,
                                     cache |-> cache, deps |-> deps, src |-> src, fn |-> fn]

\* tests/test_function_declaration.py: TestParamCallback.FlowDepend
FlowDepend == [f \in Fields |->
    CASE f = "x" -> Plain(2)
      [] f = "y" -> DefaultCb("x", "mul2")
      [] f = "z" -> Auto("ParamAttr", TRUE, <<"y">>, "y", "mul3")
      [] OTHER -> NoSpec]

\* TestParamCallback.Flow: z is cached with no depends_on
Flow == [f \in Fields |->
    CASE f = "x" -> Plain(2)
      [] f = "y" -> DefaultCb("x", "mul2")
      [] f = "z" -> Auto("ParamAttr", TRUE, <<>>, "y", "mul3")
      [] OTHER -> NoSpec]

\* TestParamCallback.FlowNoCache
FlowNoCache == [f \in Fields |->
    CASE f = "x" -> Plain(2)
      [] f = "y" -> DefaultCb("x", "mul2")
      [] f = "z" -> Auto("ParamAttr", FALSE, <<>>, "y", "mul3")
      [] OTHER -> NoSpec]

\* TestCircularNodeParamDependency.test_has_cycle_at_runtime_single_hop
Cyc2 == [f \in Fields |->
    CASE f = "x" -> Auto("ParamAttr", TRUE, <<"y">>, "y", "plus1")
      [] f = "y" -> Auto("ParamAttr", TRUE, <<"x">>, "x", "plus1")
      [] OTHER -> NoSpec]

\* test_has_cycle_at_runtime_multiple_hops: the cycle x -> y -> z -> x
Cyc3 == [f \in Fields |->
    CASE f = "x" -> Auto("ParamAttr", TRUE, <<"y">>, "y", "plus1")
      [] f = "y" -> Auto("ParamAttr", TRUE, <<"z">>, "z", "plus1")
      [] f = "z" -> Auto("ParamAttr", TRUE, <<"x">>, "x", "plus1")]

\* test_dont_raise_cycle_error_for_valid_function: the chain z -> y -> x whose
\* leaf x is a param without default
Chain == [f \in Fields |->
    CASE f = "x" -> NoDefault("ParamAttr")
      [] f = "y" -> Auto("ParamAttr", TRUE, <<"x">>, "x", "plus1")
      [] f = "z" -> Auto("ParamAttr", TRUE, <<"y">>, "y", "plus1")]

\* tests/assets/sample_flow.py: Func, its node x and the node z computed from x
Func == [f \in Fields |->
    CASE f = "x" -> NoDefault("NodeAttr")
      [] f = "z" -> Auto("NodeAttr", TRUE, <<"x">>, "x", "times10")
      [] OTHER -> NoSpec]

\* a type whose cached z has no depends_on, and a subclass of it that declares
\* the further param y: the descriptors of x and z are inherited, not copied
Base == [f \in Fields |->
    CASE f = "x" -> Plain(2)
      [] f = "z" -> Auto("ParamAttr", TRUE, <<>>, "x", "mul3")
      [] OTHER -> NoSpec]

Derived == [f \in Fields |->
    CASE f = "y" -> Plain(5)
      [] OTHER -> Base[f]]

\* a type with two cached auto-callback params without depends_on, each
\* computed from x alone
TwoAuto == [f \in Fields |->
    CASE f = "x" -> Plain(2)
      [] f = "y" -> Auto("ParamAttr", TRUE, <<>>, "x", "mul2")
      [] f = "z" -> Auto("ParamAttr", TRUE, <<>>, "x", "mul3")]

\* a type whose only declared field is a cached auto-callback param; its
\* callback reads no field
Lone == [f \in Fields |->
    CASE f = "z" -> Auto("ParamAttr", TRUE, <<>>, "z", "seven")
      [] OTHER -> NoSpec]

TypeTable(T) ==
    CASE T = "FlowDepend" -> FlowDepend
      [] T = "Flow" -> Flow
      [] T = "FlowNoCache" -> FlowNoCache
      [] T = "Cyc2" -> Cyc2
      [] T = "Cyc3" -> Cyc3
      [] T = "Chain" -> Chain
      [] T = "Func" -> Func
      [] T = "Base" -> Base
      [] T = "Derived" -> Derived
      [] T = "TwoAuto" -> TwoAuto
      [] T = "Lone" -> Lone

SpecOf(T, f) == TypeTable(T)[f]

Declared(T) == {f \in Fields : SpecOf(T, f).attr # "none"}

\* the callbacks of the test types
CbApply(fn, v) ==
    CASE fn = "mul2" -> v * 2
      [] fn = "mul3" -> v * 3
      [] fn = "plus1" -> v + 1
      [] fn = "times10" -> v * 10
      [] fn = "seven" -> 7
      [] OTHER -> v

VARIABLES
    cls,        \* the type of the component under observation
    attrx,      \* obj._attrx: field -> stored object, or Absent
    ffdepends,  \* obj.__ff_depends__: field -> (target -> recorded id)
    cyclic,     \* obj.__ff_cyclic_depends__
    toCheck,    \* Attr._to_check of each field's descriptor
    inRun,      \* fl.in_run of the component
    last,       \* the latest operation on the component and what it did
    stale       \* per cached auto field: "never" accessed; "clean": accessed and no
                \* field of its depends_on touched since; "dirty": a field of its
                \* depends_on was assigned a new value since; "other"

attrVars == <<cls, attrx, ffdepends, cyclic, toCheck, inRun, last, stale>>

(***************************************************************************)
(* Values, paths and pipelines of the call protocol.                       *)
(***************************************************************************)
NoVal == [kind |-> "none", val |-> 0]
\* an int argument
IntVal(v) == [kind |-> "int", val |-> v]
\* an argument object of a user class whose state is held in a private
\* attribute (self._v) and that has no public attribute
PrivObj(v) == [kind |-> "obj", val |-> v]

Slots == {"step1", "step2", "step3", "s"}

\* A name is a slot with the index of the invocation: `slot` for k = 0 and
\* `slot[k]` otherwise; the path of a child of the root is "." + name
Name(slot, k) == [slot |-> slot, k |-> k]
NoName == Name("none", 0)
\* the root: name "" under prefix "", abs_path "."
RootPath == Name(".", 0)
Paths == {RootPath} \cup {Name(sl, k) : sl \in Slots, k \in 0..(MaxDup - 1)}

\* tests/test_workflow_from.py SequentialPipeline
Seq3 == [name |-> "Seq3", script |-> <<"step1", "step2", "step3">>, caching |-> FALSE,
         cyclic |-> FALSE, args |-> {IntVal(v) : v \in 0..MaxArg},
         froms |-> {NoName, Name("step2", 0)}, tos |-> {NoName, Name("step2", 0)},
         rks |-> {NoVal}, param |-> 0, run_kwargs |-> NoVal, tasks |-> 0]

\* tests/test_workflow.py MultiprocessingWorkFlow: one slot invoked repeatedly
Dup == [name |-> "Dup", script |-> [i \in 1..MaxDup |-> "s"], caching |-> FALSE,
        cyclic |-> FALSE, args |-> {IntVal(0)}, froms |-> {NoName}, tos |-> {NoName},
        rks |-> {NoVal, IntVal(MaxArg)}, param |-> 0, run_kwargs |-> NoVal, tasks |-> 0]

\* tests/assets/sample_flow.py Func: CachingMiddleware switched on
Cached == [name |-> "Cached", script |-> <<"step1">>, caching |-> TRUE, cyclic |-> FALSE,
           args |-> {IntVal(v) : v \in 0..MaxArg} \cup {PrivObj(v) : v \in 0..MaxArg},
           froms |-> {NoName}, tos |-> {NoName}, rks |-> {NoVal}, param |-> 0, run_kwargs |-> NoVal, tasks |-> 0]

\* a pipeline that likely_cyclic_pipeline reports as cyclic
Looped == [name |-> "Looped", script |-> <<"step1">>, caching |-> FALSE, cyclic |-> TRUE,
           args |-> {IntVal(0)}, froms |-> {NoName}, tos |-> {NoName},
           rks |-> {NoVal, IntVal(MaxArg)}, param |-> 0, run_kwargs |-> NoVal, tasks |-> 0]

\* tests/test_workflow.py MultiprocessingWorkFlow: the run hands MaxDup tasks of
\* the slot s to parallel
Par == [name |-> "Par", script |-> <<>>, caching |-> FALSE, cyclic |-> FALSE,
        args |-> {IntVal(0)}, froms |-> {NoName}, tos |-> {NoName}, rks |-> {NoVal},
        param |-> 0, run_kwargs |-> NoVal, tasks |-> MaxDup]

Pipes == {Seq3, Dup, Cached, Looped}

\* backends/base.py:11-18: the entries of one thread in a component's Backend
NoFl == [in_run |-> "none", prefix |-> NoName, name |-> NoName, run_id |-> -1,
         flow_name |-> "none"]

\* a record of the progress map; logged tells that the path is a key of the map
NoRec == [logged |-> FALSE, status |-> "none", has_input |-> FALSE, input |-> NoVal,
          output |-> NoVal, error |-> NoName]

NoProgress == [p \in Paths |-> NoRec]

\* a partition of the Context store that does not exist
NoFlow == [exists |-> FALSE, from |-> NoName, to |-> NoName, gtr |-> "unset"]

NoCall == [y |-> NoVal, from |-> NoName, to |-> NoName, from_run |-> -1, rk |-> NoVal,
           rid |-> -1, kw |-> NoVal, prior |-> FALSE]

NoResult == [kind |-> "none", val |-> NoVal, err |-> NoName]

\* the tasks handed to parallel and where the worker of each is
Tasks == 1..MaxDup
NoTask == [pc |-> "new", name |-> NoName, cnt |-> 0]
NoTasks == [t \in Tasks |-> NoTask]

\* the threads that set keys of one partition of the Context store
Threads == 1..MaxThread
CtxKeys == {"a", "b"}
\* marks a key the partition does not hold
NoEntry == -1
NoPart == [k \in CtxKeys |-> NoEntry]
NoThread == [pc |-> "idle", key |-> "a", val |-> 0, read |-> NoPart, cas |-> 0,
             tries |-> 0]

VARIABLES
    pipe,       \* the root component: its type and what its run does
    pc,         \* "idle", or where the root call in progress is: "run", "raised"
    pos,        \* the position in the root's run: the next child invocation
    acc,        \* the value the root's run holds
    cur,        \* the arguments of the latest root call
    fl,         \* the Backend entries of the calling thread, per component
    called,     \* root._ff_childs_called: slot -> count, 0 for no entry
    tempkw,     \* root.__ff_run_temp_kwargs__, NoVal when empty
    flowCtx,    \* run id -> the partition flow|run_id of the Context store
    nodeGtr,    \* run id -> path -> good_to_run in the partition flow|run_id|path
    progress,   \* run id -> the progress map of the run
    fromRun,    \* run id -> the skip-resume partition
    store,      \* run id -> the persisted progress map
    hasStore,   \* the run ids persisted
    cache,      \* the cache of CachingMiddleware: key -> stored output
    ran,        \* path -> how often its run was executed in the latest root call
    ninv,       \* slot -> invocations of the slot in the latest root call
    returned,   \* the arguments of the calls of a caching root that returned
    result,     \* how the latest root call ended
    pool        \* task -> the worker of parallel that runs the task

VARIABLES
    cback,      \* the cache behind the Context: "file", "memcached" or "memory"
    part,       \* the partition: key -> value, Absent.v for no entry
    ver,        \* the cas token memcached holds for the partition
    lockBy,     \* the thread that holds the lock of the file cache, 0 for none
    th          \* thread -> its set in progress

callVars == <<pipe, pc, pos, acc, cur, fl, called, tempkw, flowCtx, nodeGtr, progress,
              fromRun, store, hasStore, cache, ran, ninv, returned, result, pool>>

ctxVars == <<cback, part, ver, lockBy, th>>

(***************************************************************************)
(* Serialized values and component trees (utils/modules.py, safe.py).      *)
(***************************************************************************)
\* A value of a param, live or serialized, is a record of one shape:
\*   "none"  None
\*   "int"   the int val
\*   "ref"   live: the class or function object that `name` names;
\*           serialized: the string "{{ name }}"
\*   "path"  live: pathlib.Path, val 0 for Path(".") and val > 0 for another path
\*   "typed" serialized: the dict {"__type__": name, "path": val}
\*   "unset" live: the param has no value
Val(kind, val, name) == [kind |-> kind, val |-> val, name |-> name]
NoneVal == Val("none", 0, "")
UnsetVal == Val("unset", 0, "")

\* the component types of the trees, and the names a serialized tree can hold
CompTypes == {"app.Comp", "app.Leaf"}
RefNames == {"app.helper", "os.system"}
PathType == "pathlib.Path"
\* config.py:24-26 the default run_id callback, and another callable
DefaultRunId == "theflow.callbacks.run_id__timestamp"
ConfigNames == {DefaultRunId, "os.getpid"}

\* a component, live or serialized: its type, its param p, its node n (a
\* sequence of at most one component) and its config run_id
Tree(function, p, n, run_id) ==
    [function |-> function, p |-> p, n |-> n, run_id |-> run_id]
NoTree == Tree("none", NoneVal, <<>>, "none")

\* allowed_modules: None, or a dict over `names` that maps each name to the
\* object of that name
NoList == [given |-> FALSE, names |-> {}]
AllowList(names) == [given |-> TRUE, names |-> names]

\* the outcome of load or deserialize: the exception raised ("none" when it
\* returns), the value or component returned, and the names resolved by an
\* import
NoLoad == [exc |-> "none", func |-> NoTree, imp |-> {}]

VARIABLES
    live,       \* the component that is dumped
    obj,        \* the dict handed to load
    origin,     \* "dump": obj is live.dump(); "given": obj is any dict
    safe,       \* the safe argument of load
    allowed,    \* the allowed_modules argument of load
    kwinit,     \* what Path(path=...) does: "ignored" (CPython up to 3.11
                \* ignores the keyword) or "TypeError" (CPython 3.12 on)
    res,        \* the outcome of load
    second,     \* the dump of the loaded component
    lpc         \* "idle", "ready", "loaded" or "redumped"

loadVars == <<live, obj, origin, safe, allowed, kwinit, res, second, lpc>>

\* no load under way
LoadFresh ==
    /\ live = NoTree
    /\ obj = NoTree
    /\ origin = "none"
    /\ safe = TRUE
    /\ allowed = NoList
    /\ kwinit = "ignored"
    /\ res = NoLoad
    /\ second = NoTree
    /\ lpc = "idle"

(***************************************************************************)
(* Calls through the HTTP backend (backends/http_sync.py).                 *)
(***************************************************************************)
MaxCall == 2
HttpCalls == 1..MaxCall
\* the ids uuid4 hands out
Uuids == 1..MaxCall
NoUuid == 0

\* __fl_runstates__: the path state of a node
RunStates(prefix, name, run_id, flow_name) ==
    [prefix |-> prefix, name |-> name, run_id |-> run_id, flow_name |-> flow_name]
NoStates == RunStates("", "", -1, "")

\* the value stored under an id in the global partition of the Context
Payload(args, states, has_result, out) ==
    [args |-> args, states |-> states, has_result |-> has_result, result |-> out,
     none |-> FALSE]
NoPayload == [args |-> NoVal, states |-> NoStates, has_result |-> FALSE, result |-> NoVal,
              none |-> TRUE]

\* one call of HttpSyncBackend.exec
NoExec == [pc |-> "idle", args |-> NoVal, states |-> NoStates, uuid |-> NoUuid,
           result |-> NoVal]
\* one request served by predict
NoPredict == [pc |-> "idle", id |-> NoUuid, context |-> NoPayload, args |-> NoVal,
              states |-> NoStates, result |-> NoVal]

VARIABLES
    hexec,      \* call -> the state of exec on the calling side
    predict,    \* call -> the state of the handler that serves its request
    gstore,     \* the global partition of the shared Context: id -> payload
    flowctx     \* the run ids whose flow partition exists in the shared Context

httpVars == <<hexec, predict, gstore, flowctx>>

HttpFresh ==
    /\ hexec = [c \in HttpCalls |-> NoExec]
    /\ predict = [c \in HttpCalls |-> NoPredict]
    /\ gstore = [u \in Uuids |-> NoPayload]
    /\ flowctx = {}

(***************************************************************************)
(* The check for a cyclic pipeline (debug.py likely_cyclic_pipeline).      *)
(***************************************************************************)
\* debug.py:61 max_node_connections
MaxNodeConnections == 100
\* the node slots a component declares, and the components of a pipeline
MaxSlots == 3
MaxComp == 2

\* A pipeline graph: components 1..len, each with k node slots that hold the
\* next component; in a cyclic graph the last component holds the first one,
\* in an acyclic graph its slots hold nothing.  Component 1 is the root.
Graph(loop, len, k) == [cyclic |-> loop, len |-> len, k |-> k]
NoGraph == Graph(FALSE, 0, 0)
Graphs == {Graph(c, l, k) : c \in BOOLEAN, l \in 1..MaxComp, k \in 1..MaxSlots}

VARIABLES
    graph,          \* the pipeline of the root that is called
    to_dos,         \* likely_cyclic_pipeline: the components to walk
    to_do_idx,      \* the position in to_dos
    threshold_idx,  \* the node connections counted
    cpc             \* "idle", "check", "CyclicPipelineError" or "run"

cycVars == <<graph, to_dos, to_do_idx, threshold_idx, cpc>>

CycFresh ==
    /\ graph = NoGraph
    /\ to_dos = <<>>
    /\ to_do_idx = 0
    /\ threshold_idx = 0
    /\ cpc = "idle"

(***************************************************************************)
(* The partitions of the Context store (context.py).                       *)
(***************************************************************************)
\* context.py:28 the global partition, which Context.__init__ creates, and
\* the partition of a run
GlobalKey == "__global_key__"
Contexts == {GlobalKey, "F|0"}

\* a key of the cache: whether it is in the cache, and the dict it holds
Partition(exists, vals) == [exists |-> exists, vals |-> vals]
NoPartition == Partition(FALSE, NoPart)

\* the outcome of an operation of the Context: the exception raised ("none"
\* when it returns), the value returned and the cache after it
Outcome(exc, ret, st, al) == [exc |-> exc, ret |-> ret, cache |-> st, all |-> al]

\* the latest operation, with the cache as it was before the operation
NoCtxOp == [op |-> "none", context |-> GlobalKey, exist_ok |-> FALSE, exc |-> "none",
            ret |-> NoEntry,
            before |-> [c \in Contexts |-> NoPartition], all_before |-> <<>>]

VARIABLES
    cstore,     \* the cache behind the Context: partition name -> Partition
    allctx,     \* the list under "__all_contexts__"
    cop         \* the latest operation

storeVars == <<cstore, allctx, cop>>

\* context.py:25-32 Context.__init__
StoreFresh ==
    /\ cstore = [c \in Contexts |-> IF c = GlobalKey THEN Partition(TRUE, NoPart)
                                    ELSE NoPartition]
    /\ allctx = <<>>
    /\ cop = NoCtxOp

(***************************************************************************)
(* Published params (base.py:454-474 and 1056-1072).                       *)
(***************************************************************************)
\* tests/test_config.py:6-33 the root, its node and the node of its node
PubComps == {"root", "level1", "level2"}
PubParams == {"param1", "param3"}

\* the declaration of a param: whether the component declares it, its default
\* (NoEntry for none) and the value its default_callback returns (NoEntry for
\* no callback)
ParamDecl(declared, dflt, cb) == [declared |-> declared, dflt |-> dflt, cb |-> cb]
\* RootFunction: param1 = 20; Level1Function: param1 = 1; Level2Function:
\* param1 without default, and a param3 with a default_callback
PubDecl(c, name) ==
    CASE c = "root" /\ name = "param1" -> ParamDecl(TRUE, 20, NoEntry)
      [] c = "level1" /\ name = "param1" -> ParamDecl(TRUE, 1, NoEntry)
      [] c = "level2" /\ name = "param1" -> ParamDecl(TRUE, NoEntry, NoEntry)
      [] c = "level2" /\ name = "param3" -> ParamDecl(TRUE, NoEntry, 2)
      [] OTHER -> ParamDecl(FALSE, NoEntry, NoEntry)

\* the latest access of a param: the value it gave, where the value came from
\* and what obj._attrx held for the param before
NoGot == [comp |-> "root", name |-> "param1", val |-> NoEntry, from |-> "none",
          before |-> NoEntry]

VARIABLES
    pattrx,     \* component -> param -> the value in obj._attrx, or NoEntry
    pubpart,    \* the partition "<flow>|published_params": exists, vals
    running,    \* the root is in its call
    got         \* the latest access of a param

pubVars == <<pattrx, pubpart, running, got>>

PubFresh ==
    /\ pattrx = [c \in PubComps |-> [name \in PubParams |-> NoEntry]]
    /\ pubpart = [exists |-> FALSE, vals |-> [name \in PubParams |-> NoEntry]]
    /\ running = FALSE
    /\ got = NoGot

(***************************************************************************)
(* The middleware chain (base.py:960-977).                                 *)
(***************************************************************************)
\* settings/default.py:20-26 the middleware classes
MwNames == {"TrackProgressMiddleware", "CachingMiddleware", "SkipComponentMiddleware"}
\* the length of a configured middleware list
MaxMw == 3

VARIABLES
    mwcfg,      \* settings.MIDDLEWARE[section]: the list of class names
    mwoff,      \* the names that config.middleware_switches maps to False
    mwchain,    \* self._middleware: the wrappers from the outermost one on;
                \* behind the last one is self._runx
    mwnone,     \* self._middleware is None
    mwtrace,    \* the wrappers the call under way has entered
    mpc         \* "new", "idle", "chain", "run" or "returned"

mwVars == <<mwcfg, mwoff, mwchain, mwnone, mwtrace, mpc>>

MwFresh ==
    /\ mwcfg = <<>>
    /\ mwoff = {}
    /\ mwchain = <<>>
    /\ mwnone = TRUE
    /\ mwtrace = <<>>
    /\ mpc = "new"

(***************************************************************************)
(* One component object called from several threads.                       *)
(***************************************************************************)
\* the threads that call the same root object, each in a run of its own
MaxRunner == 2
Runners == 1..MaxRunner

\* backends/base.py:11-18: the entries of one thread in the root's Backend
NoTrack == [in_run |-> FALSE, run_id |-> -1]

VARIABLES
    tfl,        \* thread -> its entries in root.fl
    tcalled,    \* root._ff_childs_called["s"], 0 for no entry: an attribute of
                \* the object, the same for all threads
    tn,         \* thread -> the invocations of the slot s its run has made
    tlog,       \* thread -> the call indexes of the paths recorded in its run
    tend        \* thread -> "new", "run", or how its call ended: "ret", "err"

thrVars == <<tfl, tcalled, tn, tlog, tend>>

ThrFresh ==
    /\ tfl = [t \in Runners |-> NoTrack]
    /\ tcalled = 0
    /\ tn = [t \in Runners |-> 0]
    /\ tlog = [t \in Runners |-> {}]
    /\ tend = [t \in Runners |-> "new"]

(***************************************************************************)
(* Concurrent callers of the Context on one partition.                     *)
(***************************************************************************)
MaxCaller == 2
Callers == 1..MaxCaller
\* the partition the callers create and write: flow F, run 0
RacePart == "F|0"

\* where a caller is: "idle", or in create_context after the test of line 135
\* ("checked") and after the write of line 144 ("written"), or in set after
\* the test of line 70 ("valid"); ok is exist_ok, key and val the arguments of
\* set, did what its latest completed operation was
NoCaller == [pc |-> "idle", ok |-> FALSE, key |-> "a", val |-> 0, did |-> "none"]

VARIABLES
    rcache,     \* the cache behind the Context: partition name -> Partition
    rall,       \* how often the partition is listed under "__all_contexts__"
    rproc,      \* caller -> where it is
    rset        \* key -> the value of the latest set that returned, NoEntry
                \* when no set of the key has returned

raceVars == <<rcache, rall, rproc, rset>>

RaceFresh ==
    /\ rcache = [c \in Contexts |-> IF c = GlobalKey THEN Partition(TRUE, NoPart)
                                    ELSE NoPartition]
    /\ rall = 0
    /\ rproc = [t \in Callers |-> NoCaller]
    /\ rset = NoPart

(***************************************************************************)
(* The cycle check of a graph (debug.py has_cycle).                        *)
(***************************************************************************)
\* the vertices of the graphs given to has_cycle are 1..MaxVertex
MaxVertex == 3

Vertices == 1..MaxVertex

\* a graph as has_cycle receives it: keys is the order in which the dict lists
\* its vertices, adj the neighbour list of each key (empty for a vertex that
\* is no key, as graph.get(vertex, []) gives)
NoDigraph == [keys |-> <<>>, adj |-> [v \in Vertices |-> <<>>]]

VARIABLES
    digraph,    \* the graph of the latest call of has_cycle
    answer      \* what the call returned: "True" or "False", "none" before it

walkVars == <<digraph, answer>>

WalkFresh ==
    /\ digraph = NoDigraph
    /\ answer = "none"

extVars ==
    <<loadVars, httpVars, cycVars, storeVars, pubVars, mwVars, thrVars, raceVars, walkVars>>

\* the parts of the model that a specification does not exercise stay fresh
ExtFresh(skip) ==
    /\ IF skip = "load" THEN TRUE ELSE LoadFresh
    /\ IF skip = "http" THEN TRUE ELSE HttpFresh
    /\ IF skip = "cyc" THEN TRUE ELSE CycFresh
    /\ IF skip = "store" THEN TRUE ELSE StoreFresh
    /\ IF skip = "pub" THEN TRUE ELSE PubFresh
    /\ IF skip = "mw" THEN TRUE ELSE MwFresh
    /\ IF skip = "thr" THEN TRUE ELSE ThrFresh
    /\ IF skip = "race" THEN TRUE ELSE RaceFresh
    /\ IF skip = "walk" THEN TRUE ELSE WalkFresh

vars == <<attrVars, callVars, ctxVars, extVars>>

\* the variables an action of one part of the model leaves alone
notAttr == <<callVars, ctxVars, extVars>>
notCall == <<attrVars, ctxVars, extVars>>
notCtx == <<attrVars, callVars, extVars>>
notLoad ==
    <<attrVars, callVars, ctxVars, httpVars, cycVars, storeVars, pubVars, mwVars, thrVars,
      raceVars, walkVars>>
notHttp ==
    <<attrVars, callVars, ctxVars, loadVars, cycVars, storeVars, pubVars, mwVars, thrVars,
      raceVars, walkVars>>
notCyc ==
    <<attrVars, callVars, ctxVars, loadVars, httpVars, storeVars, pubVars, mwVars, thrVars,
      raceVars, walkVars>>
notStore ==
    <<attrVars, callVars, ctxVars, loadVars, httpVars, cycVars, pubVars, mwVars, thrVars,
      raceVars, walkVars>>
notPub ==
    <<attrVars, callVars, ctxVars, loadVars, httpVars, cycVars, storeVars, mwVars, thrVars,
      raceVars, walkVars>>
notMw ==
    <<attrVars, callVars, ctxVars, loadVars, httpVars, cycVars, storeVars, pubVars, thrVars,
      raceVars, walkVars>>
notThr ==
    <<attrVars, callVars, ctxVars, loadVars, httpVars, cycVars, storeVars, pubVars, mwVars,
      raceVars, walkVars>>
notRace ==
    <<attrVars, callVars, ctxVars, loadVars, httpVars, cycVars, storeVars, pubVars, mwVars,
      thrVars, walkVars>>
notWalk ==
    <<attrVars, callVars, ctxVars, loadVars, httpVars, cycVars, storeVars, pubVars, mwVars,
      thrVars, raceVars>>

\* context.py:25-32 Context.__init__ over the cache b, and a partition created
\* by create_context
CtxFresh(b) ==
    /\ cback = b
    /\ part = NoPart
    /\ ver = 0
    /\ lockBy = 0
    /\ th = [t \in Threads |-> NoThread]

\* the root and the component in each of its node slots
Objs == {"root"} \cup Slots

NoneCalled == [sl \in Slots |-> 0]
NoneRan == [p \in Paths |-> 0]

\* base.py:931-981 Function.__init__ of a root of type P, with an empty Context
\* store and an empty cache
CallFresh(P) ==
    /\ pipe = P
    /\ pc = "idle"
    /\ pos = 0
    /\ acc = NoVal
    /\ cur = NoCall
    /\ fl = [o \in Objs |-> NoFl]
    /\ called = NoneCalled
    /\ tempkw = NoVal
    /\ flowCtx = [r \in RunIds |-> NoFlow]
    /\ nodeGtr = [r \in RunIds |-> [p \in Paths |-> "none"]]
    /\ progress = [r \in RunIds |-> NoProgress]
    /\ fromRun = [r \in RunIds |-> NoProgress]
    /\ store = [r \in RunIds |-> NoProgress]
    /\ hasStore = {}
    /\ cache = {}
    /\ ran = NoneRan
    /\ ninv = NoneCalled
    /\ returned = {}
    /\ result = NoResult
    /\ pool = NoTasks

(***************************************************************************)
(* The attribute engine.  One access of a field is a nest of Python calls  *)
(* (a callback reads other fields); it is computed by mutually recursive   *)
(* operators over an evaluation state s:                                   *)
(*   attrx, dep, cyc, tc : the component's fields during the evaluation    *)
(*   calls : how often each field's callback was invoked in this access    *)
(*   ok    : the identities drawn for new objects were all available       *)
(* and an environment o: the type T, whether the component is in a run,    *)
(* and the addresses the allocator hands out (pick per field for new       *)
(* values, cpick for the closure that wraps a node).                       *)
(***************************************************************************)
LiveIds(ax) == {ax[f].id : f \in {g \in Fields : ax[g] # Absent}}

\* May a new object of value v get identity i?  CPython hands out any address
\* no live object occupies; an immutable value may also be the very object
\* that is already stored (interned ints), a new node never is.
CanAlloc(ax, v, i, fresh) ==
    \A f \in Fields : (ax[f] # Absent /\ ax[f].id = i) => (~fresh /\ ax[f].v = v /\ ~ax[f].w)

\* no two different live objects share an identity
HeapOK(ax) ==
    \A f, g \in Fields : (ax[f] # Absent /\ ax[g] # Absent /\ ax[f].id = ax[g].id) => ax[f] = ax[g]

Raise(s, e) == [s |-> s, val |-> Unset, err |-> e]
Ret(s, val) == [s |-> s, val |-> val, err |-> "none"]

IsAttr(T, g) == SpecOf(T, g).attr \in {"ParamAttr", "NodeAttr"}

\* base.py:252-262: every other ParamAttr / NodeAttr of the class, in dir() order
Discover(T, f) == SelectSeq(FieldOrder, LAMBDA g : g # f /\ IsAttr(T, g))

NoIds == [seen |-> {}, id |-> [g \in Fields |-> NoId]]

RECURSIVE Getattr(_, _, _)
RECURSIVE AttrGet(_, _, _)
RECURSIVE AutoCalc(_, _, _)
RECURSIVE Callback(_, _, _)
RECURSIVE CheckLoop(_, _, _, _, _)
RECURSIVE StoreIds(_, _, _, _, _)

\* the callback's computation from r, the outcome of reading its source field
CallbackOn(r, f, o) ==
    IF r.err # "none" THEN r
    ELSE IF r.val = Unset \/ r.val.w THEN Raise(r.s, "type")
    ELSE Ret([r.s EXCEPT !.ok = @ /\ CanAlloc(r.s.attrx, CbApply(SpecOf(o.T, f).fn, r.val.v),
                                             o.pick[f], SpecOf(o.T, f).attr = "NodeAttr")],
             Obj(CbApply(SpecOf(o.T, f).fn, r.val.v), o.pick[f]))

\* the user's callback: reads one field of the component and computes from it
Callback(s, f, o) ==
    IF SpecOf(o.T, f).src = f
    THEN CallbackOn(Ret([s EXCEPT !.calls[f] = @ + 1], Obj(0, NoId)), f, o)
    ELSE CallbackOn(Getattr([s EXCEPT !.calls[f] = @ + 1], SpecOf(o.T, f).src, o), f, o)

\* base.py:267-273: one round of the loop, r the outcome of getattr(obj, target)
CheckTarget(r, target, old_id, f, i, ids, o) ==
    IF r.err # "none" THEN [s |-> r.s, ids |-> ids, must |-> FALSE, err |-> r.err]
    ELSE IF old_id # r.val.id
    THEN [s |-> r.s, must |-> TRUE, err |-> "none",
          ids |-> [seen |-> ids.seen \cup {target}, id |-> [ids.id EXCEPT ![target] = r.val.id]]]
    ELSE CheckLoop(r.s, f, i + 1,
                   [seen |-> ids.seen \cup {target}, id |-> [ids.id EXCEPT ![target] = r.val.id]], o)

\* base.py:266-273: compare the recorded identities with the current ones,
\* stopping at the first that differs
CheckLoop(s, f, i, ids, o) ==
    IF i > Len(s.tc[f]) THEN [s |-> s, ids |-> ids, must |-> FALSE, err |-> "none"]
    ELSE CheckTarget(Getattr(s, s.tc[f][i], o), s.tc[f][i], s.dep[f][s.tc[f][i]], f, i, ids, o)

\* base.py:280: record the identity r.val.id of the target
StoreTarget(r, target, f, i, ids, o) ==
    IF r.err # "none" THEN [s |-> r.s, err |-> r.err]
    ELSE StoreIds([r.s EXCEPT !.dep[f][target] = r.val.id], f, i + 1, ids, o)

\* base.py:278-280: after a recalculation record the identity of every target:
\* the one taken in the check, or that of a new getattr
StoreIds(s, f, i, ids, o) ==
    IF i > Len(s.tc[f]) THEN [s |-> s, err |-> "none"]
    ELSE StoreTarget(IF s.tc[f][i] \in ids.seen
                     THEN Ret(s, [v |-> 0, id |-> ids.id[s.tc[f][i]], w |-> FALSE])
                     ELSE Getattr(s, s.tc[f][i], o),
                     s.tc[f][i], f, i, ids, o)

\* base.py:284: the recalculated value, once the identities are recorded
Recorded(st, val) == IF st.err # "none" THEN Raise(st.s, st.err) ELSE Ret(st.s, val)

\* base.py:276-280: c the outcome of the callback
Recalculated(c, ids, f, o) ==
    IF c.err # "none" THEN c ELSE Recorded(StoreIds(c.s, f, 1, ids, o), c.val)

\* base.py:275-284: lp the outcome of the identity check
Checked(lp, f, o) ==
    IF lp.err # "none" THEN Raise(lp.s, lp.err)
    ELSE IF lp.must THEN Recalculated(Callback(lp.s, f, o), lp.ids, f, o)
    ELSE IF lp.s.attrx[f] = Absent THEN Raise(lp.s, "key")
    ELSE Ret(lp.s, lp.s.attrx[f])

\* base.py:234-284 Attr._auto_calculate_param
AutoCalc(s, f, o) ==
    IF ~SpecOf(o.T, f).cache THEN Callback(s, f, o)
    ELSE Checked(CheckLoop(IF s.tc[f] = <<>> THEN [s EXCEPT !.tc[f] = Discover(o.T, f)] ELSE s,
                           f, 1, NoIds, o), f, o)

\* base.py:189: obj._attrx[self._attrx][self._name] = value
Store(s, f, val) == [s EXCEPT !.attrx[f] = val]

\* base.py:168, 185, 189: the callback returned: the name leaves the in-flight
\* set and the value is stored
Computed(r, f) ==
    IF r.err # "none" THEN r
    ELSE Ret(Store([r.s EXCEPT !.cyc = @ \ {f}], f, r.val), r.val)

\* base.py:147-190 Attr.__get__
AttrGet(s, f, o) ==
    IF SpecOf(o.T, f).kind = "auto"
    THEN IF f \in s.cyc THEN Raise(s, "cyclic")
         ELSE Computed(AutoCalc([s EXCEPT !.cyc = @ \cup {f}], f, o), f)
    ELSE IF s.attrx[f] # Absent THEN Ret(s, s.attrx[f])
    ELSE IF SpecOf(o.T, f).kind = "fixed"
    THEN Ret(Store([s EXCEPT !.ok = @ /\ CanAlloc(s.attrx, SpecOf(o.T, f).dflt, o.pick[f], FALSE)],
                   f, Obj(SpecOf(o.T, f).dflt, o.pick[f])),
             Obj(SpecOf(o.T, f).dflt, o.pick[f]))
    ELSE IF SpecOf(o.T, f).kind = "defcb"
    THEN IF f \in s.cyc THEN Raise(s, "cyclic")
         ELSE Computed(Callback([s EXCEPT !.cyc = @ \cup {f}], f, o), f)
    ELSE Ret(s, Unset)

\* base.py:1238-1263 Function._prepare_child: in a run a node is handed out
\* wrapped in a new `exec` closure
PrepareChild(s, val, o) ==
    IF ~o.run THEN Ret(s, val)
    ELSE Ret([s EXCEPT !.ok = @ /\ o.cpick \notin LiveIds(s.attrx)],
             [v |-> val.v, id |-> o.cpick, w |-> TRUE])

\* base.py:608-612: r the outcome of Attr.__get__
Prepared(r, o) ==
    IF r.err # "none" THEN r
    ELSE IF r.val # Unset THEN PrepareChild(r.s, r.val, o)
    ELSE r

\* base.py:603-612 NodeAttr.__get__
NodeGet(s, f, o) == Prepared(AttrGet(s, f, o), o)

\* base.py:454-474 ParamAttr.__get__
ParamGet(s, f, o) == AttrGet(s, f, o)

\* getattr(obj, f): the descriptor found on the class, AttributeError when the
\* class has none of that name
Getattr(s, f, o) ==
    IF SpecOf(o.T, f).attr = "none" THEN Raise(s, "attribute")
    ELSE IF SpecOf(o.T, f).attr = "NodeAttr" THEN NodeGet(s, f, o) ELSE ParamGet(s, f, o)

(***************************************************************************)
(* Operations on the component's fields.                                   *)
(***************************************************************************)
NoCalls == [g \in Fields |-> 0]

\* What the latest operation did: v the value it returned, err the exception
\* it raised, n how often the callback of field f itself was invoked, same
\* whether the object the field resolved to is the one it held before
NoOp == [op |-> "none", f |-> "x", v |-> -1, err |-> "none", n |-> 0, same |-> FALSE]

\* the cached auto-callback fields that name g in depends_on
DependOn(T, g) ==
    {f \in Fields : SpecOf(T, f).kind = "auto" /\ SpecOf(T, f).cache
                    /\ \E i \in 1..Len(SpecOf(T, f).deps) : SpecOf(T, f).deps[i] = g}

\* the cached auto-callback fields without depends_on, for which g is another
\* declared param or node
ImplicitOn(T, g) ==
    {f \in Fields : SpecOf(T, f).kind = "auto" /\ SpecOf(T, f).cache
                    /\ SpecOf(T, f).deps = <<>> /\ f # g /\ IsAttr(T, g)}

\* the cached auto-callback fields whose dependency set holds g
Dependents(T, g) == DependOn(T, g) \cup ImplicitOn(T, g)

\* The identities the state mentions: of live objects, recorded in
\* __ff_depends__, or of the object the latest operation returned.  All other
\* addresses are interchangeable, so the allocator's choice among them is
\* explored up to renaming: they are handed out lowest first, and every state
\* is stored with its addresses renamed in order of first mention (the program
\* only ever compares identities for equality).
Mentioned == LiveIds(attrx) \cup {ffdepends[f][g] : f, g \in Fields}

Lowest(S) == {i \in S : \A j \in S : i <= j}

Canonical(used) ==
    \A i \in (used \cap Ids) \ Mentioned :
        \A j \in Ids \ Mentioned : j < i => j \in used

\* the fields an access of f may read: the callback's source and the targets
\* of the identity check, transitively
Reads(T, f) ==
    IF SpecOf(T, f).kind \notin {"auto", "defcb"} THEN {}
    ELSE {SpecOf(T, f).src} \cup
         (IF SpecOf(T, f).kind = "auto" /\ SpecOf(T, f).cache
          THEN IF SpecOf(T, f).deps = <<>>
               THEN {g \in Fields : g # f /\ IsAttr(T, g)}
               ELSE {SpecOf(T, f).deps[i] : i \in 1..Len(SpecOf(T, f).deps)}
          ELSE {})

Reach1(T, S) == S \cup UNION {Reads(T, g) : g \in S}

Reach(T, f) == Reach1(T, Reach1(T, Reach1(T, {f})))

\* the fields for which an access of f may create a new object
Allocates(T, f) ==
    {g \in Reach(T, f) : \/ SpecOf(T, g).kind = "auto"
                         \/ SpecOf(T, g).kind \in {"fixed", "defcb"} /\ attrx[g] = Absent}

Picks(T, f) == {p \in [Fields -> Ids] :
                   /\ \A g \in Fields \ Allocates(T, f) : p[g] = 0
                   /\ Canonical({p[g] : g \in Allocates(T, f)})}

Pairs == <<<<"x", "x">>, <<"x", "y">>, <<"x", "z">>, <<"y", "x">>, <<"y", "y">>,
           <<"y", "z">>, <<"z", "x">>, <<"z", "y">>, <<"z", "z">>>>

Occ(ax, dep) == [k \in 1..(Len(FieldOrder) + Len(Pairs)) |->
                    IF k <= Len(FieldOrder) THEN ax[FieldOrder[k]].id
                    ELSE dep[Pairs[k - Len(FieldOrder)][1]][Pairs[k - Len(FieldOrder)][2]]]

FirstAt(occ, i) == CHOOSE k \in DOMAIN occ : occ[k] = i /\ \A j \in 1..(k - 1) : occ[j] # i

Rename(occ, i) ==
    IF i \in Ids /\ \E k \in DOMAIN occ : occ[k] = i
    THEN Cardinality({j \in Ids : \E k \in 1..(FirstAt(occ, i) - 1) : occ[k] = j})
    ELSE i

NormAttrx(ax, dep) ==
    [f \in Fields |-> IF ax[f] = Absent THEN Absent
                      ELSE [ax[f] EXCEPT !.id = Rename(Occ(ax, dep), @)]]

NormDep(ax, dep) == [f \in Fields |-> [g \in Fields |-> Rename(Occ(ax, dep), dep[f][g])]]

ClosurePicks(T, f) ==
    IF inRun /\ \E g \in Reach(T, f) : SpecOf(T, g).attr = "NodeAttr"
    THEN (Ids \cap Mentioned) \cup Lowest(Ids \ Mentioned)
    ELSE {0}

\* the component after an access of f with outcome r
Accessed(r, f) ==
    /\ r.s.ok
    /\ HeapOK(r.s.attrx)
    /\ attrx' = NormAttrx(r.s.attrx, r.s.dep)
    /\ ffdepends' = NormDep(r.s.attrx, r.s.dep)
    /\ cyclic' = r.s.cyc
    /\ toCheck' = r.s.tc
    /\ last' = [op |-> "get", f |-> f, v |-> r.val.v, err |-> r.err,
                n |-> r.s.calls[f],
                same |-> (r.err = "none" /\ r.s.attrx[f] = attrx[f])]
    /\ stale' = IF r.err = "none" /\ SpecOf(cls, f).kind = "auto" /\ SpecOf(cls, f).cache
                THEN [stale EXCEPT ![f] = "clean"] ELSE stale

\* getattr(obj, f) by the caller
Get(f) ==
    /\ f \in Declared(cls)
    /\ \E pick \in Picks(cls, f), cpick \in ClosurePicks(cls, f) :
         Accessed(Getattr([attrx |-> attrx, dep |-> ffdepends, cyc |-> cyclic, tc |-> toCheck,
                           calls |-> NoCalls, ok |-> TRUE],
                          f, [T |-> cls, pick |-> pick, cpick |-> cpick, run |-> inRun]), f)
    /\ UNCHANGED <<cls, inRun>>
    /\ UNCHANGED notAttr

\* a descriptor whose test of line 193 never holds
IsAutoNever(T, f) == FALSE

\* base.py:193: self._auto_callback != unset
IsAuto(T, f) == SpecOf(T, f).kind = "auto"

\* base.py:192-197 Attr.__set__: setattr(obj, f, value)
Set(f) ==
    /\ f \in Declared(cls)
    /\ \E v \in SetVals, i \in Ids :
         /\ CanAlloc(attrx, v, i, SpecOf(cls, f).attr = "NodeAttr")
         /\ Canonical({i})
         /\ IF IsAuto(cls, f)
            THEN /\ last' = [NoOp EXCEPT !.op = "set", !.f = f, !.err = "value"]
                 /\ UNCHANGED <<attrx, ffdepends, stale>>
            ELSE /\ attrx' = NormAttrx([attrx EXCEPT ![f] = Obj(v, i)], ffdepends)
                 /\ ffdepends' = NormDep([attrx EXCEPT ![f] = Obj(v, i)], ffdepends)
                 /\ last' = [NoOp EXCEPT !.op = "set", !.f = f, !.v = v]
                 /\ stale' = [g \in Fields |->
                        IF g \in Dependents(cls, f) /\ stale[g] = "clean"
                        THEN IF attrx[f] = Absent \/ attrx[f].v # v THEN "dirty" ELSE "other"
                        ELSE stale[g]]
    /\ UNCHANGED <<cls, cyclic, toCheck, inRun>>
    /\ UNCHANGED notAttr

\* a delete that leaves the stored value where it is
RemovedNever(ax, f) == ax

\* base.py:205-206: del obj._attrx[self._attrx][self._name], when it is there
Removed(ax, f) == [ax EXCEPT ![f] = Absent]

\* base.py:199-206 Attr.__delete__: delattr(obj, f)
Delete(f) ==
    /\ f \in Declared(cls)
    /\ IF SpecOf(cls, f).kind = "auto"
       THEN /\ last' = [NoOp EXCEPT !.op = "delete", !.f = f, !.err = "value"]
            /\ UNCHANGED <<attrx, ffdepends, stale>>
       ELSE /\ attrx' = NormAttrx(Removed(attrx, f), ffdepends)
            /\ ffdepends' = NormDep(Removed(attrx, f), ffdepends)
            /\ last' = [NoOp EXCEPT !.op = "delete", !.f = f]
            /\ stale' = [g \in Fields |-> IF g \in Dependents(cls, f) THEN "other" ELSE stale[g]]
    /\ UNCHANGED <<cls, cyclic, toCheck, inRun>>
    /\ UNCHANGED notAttr

\* base.py:1014-1017 Function._runx: the component's run starts
RunX ==
    /\ ~inRun
    /\ inRun' = TRUE
    /\ UNCHANGED <<cls, attrx, ffdepends, cyclic, toCheck, last, stale>>
    /\ UNCHANGED notAttr

\* backends/base.py:140-147 Backend.clear at the end of __call__
FlClear ==
    /\ inRun
    /\ inRun' = FALSE
    /\ UNCHANGED <<cls, attrx, ffdepends, cyclic, toCheck, last, stale>>
    /\ UNCHANGED notAttr

\* base.py:931-958 Function.__init__ of a component of type T
AttrFresh(T) ==
    /\ cls = T
    /\ attrx = [f \in Fields |-> Absent]
    /\ ffdepends = [f \in Fields |-> [g \in Fields |-> NoId]]
    /\ cyclic = {}
    /\ toCheck = [f \in Fields |-> SpecOf(T, f).deps]
    /\ inRun = FALSE
    /\ last = NoOp
    /\ stale = [f \in Fields |-> "never"]

InitAttrOf(T) == AttrFresh(T) /\ CallFresh(Seq3) /\ CtxFresh("file") /\ ExtFresh("none")

InitAttr == \E T \in Types : InitAttrOf(T)

\* a component of the type of test_param_auto_callback_with_depend_on
InitDepend == InitAttrOf("FlowDepend")

\* a component with a node computed from another node (sample_flow.Func)
InitNode == InitAttrOf("Func")

\* components of the types of TestCircularDependency
InitCycle == \E T \in {"Cyc2", "Cyc3", "Chain"} : InitAttrOf(T)

NextAttr ==
    \/ \E f \in Fields : Get(f)
    \/ \E f \in Fields : Set(f)
    \/ \E f \in Fields : Delete(f)
    \/ RunX
    \/ FlClear

SpecAttr == InitAttr /\ [][NextAttr]_vars

SpecDepend == InitDepend /\ [][NextAttr]_vars

SpecNode == InitNode /\ [][NextAttr]_vars

SpecCycle == InitCycle /\ [][NextAttr]_vars

(***************************************************************************)
(* Properties of the attribute engine.                                     *)
(***************************************************************************)
\* the step is a get of field f by the caller
GetStep(f) == last'.op = "get" /\ last'.f = f /\ inRun' = inRun /\ cls' = cls

CachedAuto(T) == {f \in Fields : SpecOf(T, f).kind = "auto" /\ SpecOf(T, f).cache}

\* C1: for a cached auto-callback field with depends_on = [y]: once it has
\* been accessed, assigning a new value to y makes the next access invoke its
\* callback exactly once, and while only fields outside depends_on were
\* assigned an access invokes the callback zero times.
C1_Invalidation ==
    [][\A f \in CachedAuto(cls) :
          GetStep(f) => /\ stale[f] = "dirty" => last'.err = "none" /\ last'.n = 1
                        /\ stale[f] = "clean" => last'.err = "none" /\ last'.n = 0]_vars

\* C1 fails: an access of z returned, without recomputing, a value that is
\* not the one its callback gives for the current y
C1_StaleValue ==
    /\ cls = "FlowDepend"
    /\ last.op = "get" /\ last.f = "z" /\ last.err = "none" /\ last.n = 0
    /\ attrx["y"] # Absent
    /\ attrx["z"].v # CbApply("mul3", attrx["y"].v)

\* the fields whose resolved value is kept: fixed defaults and cached autos
Memo(T, f) == SpecOf(T, f).kind = "fixed" \/ f \in CachedAuto(T)

\* C2: two consecutive gets of one field with no set or delete in between
\* return the identical value, and for a fixed-default or an already-cached
\* auto-callback field the second get invokes no callback; before, during and
\* after a run.
C2_GetIdempotent ==
    [][(last.op = "get" /\ last.err = "none" /\ GetStep(last.f))
          => /\ last'.err = "none"
             /\ last'.v = last.v
             /\ Memo(cls, last.f) => last'.n = 0 /\ last'.same]_vars

\* C2 fails: in a run, the get of a cached node whose first get had returned
\* runs its callback again
C2_Recomputed ==
    /\ cls = "Func" /\ inRun
    /\ last.op = "get" /\ last.f = "z" /\ last.n = 1
    /\ stale["z"] = "clean"

\* the value the callbacks of Chain give for field f from the leaf x
ChainValue(f) ==
    CASE f = "x" -> attrx["x"].v
      [] f = "y" -> CbApply("plus1", attrx["x"].v)
      [] f = "z" -> CbApply("plus1", CbApply("plus1", attrx["x"].v))

\* C3: an access whose evaluation re-enters itself raises
\* CyclicDependencyError; an access of a field of the acyclic chain whose leaf
\* has a concrete value returns the correctly computed value without error.
C3_Reentrancy ==
    /\ (cls \in {"Cyc2", "Cyc3"} /\ last.op = "get") => last.err = "cyclic"
    /\ (cls = "Chain" /\ last.op = "get" /\ attrx["x"] # Absent)
          => last.err = "none" /\ last.v = ChainValue(last.f)

\* C3 fails: with the leaf assigned, the access of the acyclic chain is
\* reported as cyclic
C3_FalseCycle ==
    /\ cls = "Chain" /\ attrx["x"] # Absent
    /\ last.op = "get" /\ last.f = "z" /\ last.err = "cyclic"

(***************************************************************************)
(* The call protocol: Function.__call__, the middleware chain and the      *)
(* run tracker, for a root whose run invokes its children one after the    *)
(* other.                                                                  *)
(***************************************************************************)

\* backends/base.py:103-122 Backend.abs_path: "." for the root, "." + name for
\* a child of the root
AbsPath(b) == IF b.prefix = RootPath THEN b.name ELSE RootPath

\* utils/paths.py:81-96 is_name_matched, for a pattern without wildcard
IsNameMatched(name, pattern) == name = pattern

\* utils/paths.py:99-119 is_parent_of_child: the pattern is the child without
\* its last component, which for a child of the root is the root's name ""
IsParentOfChild(parent, child) == parent = NoName

\* utils/hashes.py:45-57: an object that is no primitive or container is hashed
\* by its type and its public attributes
HashArg(a) == IF a.kind = "obj" THEN [kind |-> "obj", val |-> 0] ELSE a

\* base.py:1369-1408 Function.dump: the nodes and the values of the params
FunctionDump(P) == [nodes |-> P.script, params |-> P.param]

\* a param whose value is a lambda function
Lambda == -1

\* utils/modules.py:113-115 serialize: a lambda function raises ValueError
Serializable(v) == v # Lambda

\* a key construction that never fails
KeyFailedNever(P, kw) == FALSE

\* base.py:1394-1401 and middleware.py:179-186: dump(strict=True) re-raises the
\* ValueError of a param that cannot be serialized, and create_key raises
KeyFailed(P, kw) == ~Serializable(P.param)

\* middleware.py:192-215 CachingMiddleware.create_key
CreateKey(P, kw) ==
    [input |-> HashArg(kw), name |-> P.name, definition |-> FunctionDump(P)]

\* middleware.py:181-184: the stored output of a key, NoVal when there is none
CacheHit(key) == \E e \in cache : e.key = key

CacheGet(key) == (CHOOSE e \in cache : e.key = key).out

\* middleware.py:188-189: self._cache[hash_key] = output
CachePut(key, out) == {e \in cache : e.key # key} \cup {[key |-> key, out |-> out]}

\* base.py:1249-1260: the name under which the next invocation of a slot is
\* tracked
ChildName(cnt, slot) == Name(slot, cnt[slot])

\* a table that does not count the invocation
NextCalledLost(cnt, slot) == cnt

\* base.py:1260: self._ff_childs_called[name] = ... + 1
NextCalled(cnt, slot) == [cnt EXCEPT ![slot] = @ + 1]

\* RunTracker.log(path, **fields): the fields are merged into the record at path
LogStatus(m, p, st) == [m EXCEPT ![p] = [@ EXCEPT !.logged = TRUE, !.status = st]]

LogIO(m, p, in, out) ==
    [m EXCEPT ![p] = [@ EXCEPT !.logged = TRUE, !.has_input = TRUE, !.input = in,
                                !.output = out]]

LogError(m, p, in, e) ==
    [m EXCEPT ![p] = [@ EXCEPT !.logged = TRUE, !.has_input = TRUE, !.input = in,
                                !.output = NoVal, !.error = e]]

\* RunTracker.output(name) on the skip-resume partition: raises when the path
\* has no record
HasOutput(m, p) == m[p].logged

\* a tracker that logs the status run together with input and output
TrackSuccessRestated(m, p, in, out) == LogStatus(LogIO(m, p, in, out), p, "run")

\* middleware.py:153 TrackProgressMiddleware: the call returned
TrackSuccess(m, p, in, out) == LogIO(m, p, in, out)

\* a tracker that logs nothing when the call raises
TrackFailureSilent(m, p, in, e) == m

\* middleware.py:142-144 TrackProgressMiddleware: the call raised e
TrackFailure(m, p, in, e) == LogError(m, p, in, e)

\* middleware.py:80-84: good_to_run of the parent's partition, True by default
GoodToRun(g) == g # "false"

\* a middleware that never skips
SkipNever(good, p, from, m) == "run"

\* middleware.py:86-117 SkipComponentMiddleware: what happens to the node at
\* path p: "resume" flips good_to_run and runs, "cached" takes the output of
\* the loaded run, "fallback" runs as no output was found, "run" runs
SkipDecision(good, p, from, m) ==
    IF ~good
    THEN IF IsNameMatched(p, from) THEN "resume"
         ELSE IF HasOutput(m, p) THEN "cached" ELSE "fallback"
    ELSE "run"

\* middleware.py:110-114: when the path of the node is the stop point, False
\* is written under good_to_run in the partition flow|run_id
ToReached(to, p, gtr) == IF to = p THEN "false" ELSE gtr

\* what the run of a step computes from its input
RunOf(v) == IntVal(v.val + 1)

\* the exception classes raised before the middleware chain is entered; an
\* exception raised by the run of the node at path p is named by p
CyclicPipelineError == Name("CyclicPipelineError", 0)
ValueError == Name("ValueError", 0)

UsedRuns == {r \in RunIds : flowCtx[r].exists}

\* config.run_id: an id no run has used, or, the template being the user's,
\* one that a run has used
RunIdChoices == Lowest(RunIds \ UsedRuns) \cup Lowest(UsedRuns)

\* dict.update for the one keyword of run: the override, when there is one,
\* replaces the value
Overlay(kw, over) == IF over # NoVal THEN over ELSE kw

\* RunTracker.load(run_path): the persisted progress map of the run is
\* replayed into the skip-resume partition
TrackerLoad(st, from_run) == st[from_run]

\* a middleware that ignores _ff_from_run
LoadFromRunSkipped(st, from_run, old) == old

\* middleware.py:66-68: with _ff_from_run the run is loaded
LoadFromRun(st, from_run, old) == IF from_run # -1 THEN TrackerLoad(st, from_run) ELSE old

\* base.py:1086-1100 finally: self._variablex(); self.fl.clear()
Finally ==
    /\ tempkw' = NoVal
    /\ called' = NoneCalled
    /\ fl' = [fl EXCEPT !["root"] = NoFl]

\* base.py:1026-1084 and the middleware of the root down to _runx: the root is
\* called with y, the routing arguments from, to and from_run, and a one-shot
\* override rk
Call(y, from, to, from_run, rk, rid) ==
    /\ pc = "idle"
    /\ LET temp == IF rk # NoVal THEN rk ELSE tempkw
           kw == Overlay(Overlay(y, pipe.run_kwargs), temp)
           args == [y |-> y, from |-> from, from_run |-> from_run, rk |-> rk,
                    param |-> pipe.param]
           key == CreateKey(pipe, kw)
           call == [y |-> y, from |-> from, to |-> to, from_run |-> from_run, rk |-> rk,
                    rid |-> rid, kw |-> kw, prior |-> args \in returned]
       IN  /\ ninv' = NoneCalled
           /\ pool' = NoTasks
           /\ pos' = 1
           /\ IF pipe.cyclic
              THEN \* base.py:1045-1049
                   /\ tempkw' = temp
                   /\ cur' = NoCall
                   /\ result' = [kind |-> "err", val |-> NoVal, err |-> CyclicPipelineError]
                   /\ ran' = NoneRan
                   /\ UNCHANGED <<pipe, pc, acc, fl, called, flowCtx, nodeGtr, progress,
                                  fromRun, store, hasStore, cache, returned>>
              ELSE IF flowCtx[rid].exists
              THEN \* base.py:1051-1053: create_context finds the partition
                   /\ tempkw' = temp
                   /\ fl' = [fl EXCEPT !["root"].run_id = rid, !["root"].flow_name = "flow"]
                   /\ cur' = NoCall
                   /\ result' = [kind |-> "err", val |-> NoVal, err |-> ValueError]
                   /\ ran' = NoneRan
                   /\ UNCHANGED <<pipe, pc, acc, called, flowCtx, nodeGtr, progress,
                                  fromRun, store, hasStore, cache, returned>>
              ELSE IF pipe.caching /\ ~KeyFailed(pipe, kw) /\ CacheHit(key)
              THEN \* middleware.py:180-183, 153, 159-161 and the finally
                   /\ cur' = call
                   /\ flowCtx' = [flowCtx EXCEPT ![rid] = [NoFlow EXCEPT !.exists = TRUE]]
                   /\ nodeGtr' = [nodeGtr EXCEPT ![rid][RootPath] = "unset"]
                   /\ progress' = [progress EXCEPT
                                     ![rid] = TrackSuccess(@, RootPath, kw, CacheGet(key))]
                   /\ store' = [store EXCEPT ![rid] = progress'[rid]]
                   /\ hasStore' = hasStore \cup {rid}
                   /\ result' = [kind |-> "ret", val |-> CacheGet(key), err |-> NoName]
                   /\ returned' = returned \cup {args}
                   /\ Finally
                   /\ ran' = NoneRan
                   /\ UNCHANGED <<pipe, pc, acc, fromRun, cache>>
              ELSE \* middleware.py:62-75, 110-117 and base.py:1014-1017
                   /\ cur' = call
                   /\ tempkw' = temp
                   /\ flowCtx' = [flowCtx EXCEPT
                                    ![rid] = [exists |-> TRUE, from |-> from, to |-> to,
                                              gtr |-> ToReached(to, RootPath, "unset")]]
                   /\ fromRun' = [fromRun EXCEPT ![rid] = LoadFromRun(store, from_run, @)]
                   /\ nodeGtr' = [nodeGtr EXCEPT
                                    ![rid][RootPath] =
                                        IF from # NoName /\ IsParentOfChild(fl["root"].name, from)
                                        THEN "false" ELSE "unset"]
                   /\ progress' = [progress EXCEPT ![rid] = LogStatus(@, RootPath, "run")]
                   /\ fl' = [fl EXCEPT !["root"].run_id = rid, !["root"].flow_name = "flow",
                                       !["root"].in_run = "true"]
                   /\ ran' = [NoneRan EXCEPT ![RootPath] = 1]
                   /\ pc' = "run"
                   /\ acc' = kw
                   /\ result' = NoResult
                   /\ UNCHANGED <<pipe, called, store, hasStore, cache, returned>>
    /\ UNCHANGED notCall

\* base.py:1249-1261 and the child's __call__ with its middleware: the root's
\* run invokes the child in the next slot of its script; fail tells whether
\* the run of the child raises
Invoke(fail) ==
    /\ pc = "run"
    /\ pos <= Len(pipe.script)
    /\ LET slot == pipe.script[pos]
           rid == fl["root"].run_id
           p == ChildName(called, slot)
           track == [in_run |-> "true", prefix |-> AbsPath(fl["root"]), name |-> p,
                     run_id |-> rid, flow_name |-> fl["root"].flow_name]
           from == flowCtx[rid].from
           good == GoodToRun(nodeGtr[rid][RootPath])
           how == SkipDecision(good, AbsPath(track), from, fromRun[rid])
           logged == LogStatus(progress[rid], p, IF how = "cached" THEN "cached" ELSE "run")
       IN  /\ p \in Paths
           /\ called' = NextCalled(called, slot)
           /\ ninv' = [ninv EXCEPT ![slot] = @ + 1]
           \* base.py:1074 and middleware.py:71-75, 90-94
           /\ nodeGtr' = [nodeGtr EXCEPT
                            ![rid][p] = IF from # NoName /\ IsParentOfChild(track.name, from)
                                        THEN "false" ELSE "unset",
                            ![rid][RootPath] = IF how = "resume" THEN "true" ELSE @]
           \* middleware.py:110-114: the node runs with good_to_run True
           /\ flowCtx' = [flowCtx EXCEPT
                            ![rid].gtr = IF how = "run"
                                         THEN ToReached(flowCtx[rid].to, AbsPath(track), @)
                                         ELSE @]
           \* base.py:1096-1098: the child's finally leaves its Backend empty
           /\ fl' = [fl EXCEPT ![slot] = NoFl]
           /\ IF how = "cached"
              THEN /\ progress' = [progress EXCEPT
                                     ![rid] = TrackSuccess(logged, p, acc, fromRun[rid][p].output)]
                   /\ acc' = fromRun[rid][p].output
                   /\ pos' = pos + 1
                   /\ UNCHANGED <<ran, pc, result>>
              ELSE /\ ran' = [ran EXCEPT ![p] = @ + 1]
                   /\ IF fail
                      THEN /\ progress' = [progress EXCEPT
                                             ![rid] = TrackFailure(logged, p, acc, p)]
                           /\ pc' = "raised"
                           /\ result' = [kind |-> "raising", val |-> NoVal, err |-> p]
                           /\ UNCHANGED <<acc, pos>>
                      ELSE /\ progress' = [progress EXCEPT
                                             ![rid] = TrackSuccess(logged, p, acc, RunOf(acc))]
                           /\ acc' = RunOf(acc)
                           /\ pos' = pos + 1
                           /\ UNCHANGED <<pc, result>>
    /\ UNCHANGED <<pipe, cur, tempkw, fromRun, store, hasStore, cache, returned, pool>>
    /\ UNCHANGED notCall

\* the root's run returns: middleware.py:188-189, 153, 159-161 and
\* base.py:1089-1102
Return ==
    /\ pc = "run"
    /\ pos > Len(pipe.script)
    /\ \A t \in 1..pipe.tasks : pool[t].pc = "done"
    /\ LET rid == fl["root"].run_id
       IN  /\ cache' = IF pipe.caching /\ ~KeyFailed(pipe, cur.kw)
                       THEN CachePut(CreateKey(pipe, cur.kw), acc) ELSE cache
           /\ progress' = [progress EXCEPT ![rid] = TrackSuccess(@, RootPath, cur.kw, acc)]
           /\ store' = [store EXCEPT ![rid] = progress'[rid]]
           /\ hasStore' = hasStore \cup {rid}
    /\ result' = [kind |-> "ret", val |-> acc, err |-> NoName]
    /\ returned' = IF pipe.caching
                   THEN returned \cup {[y |-> cur.y, from |-> cur.from,
                                        from_run |-> cur.from_run, rk |-> cur.rk,
                                        param |-> pipe.param]}
                   ELSE returned
    /\ pc' = "idle"
    /\ Finally
    /\ UNCHANGED <<pipe, pos, acc, cur, flowCtx, nodeGtr, fromRun, ran, ninv, pool>>
    /\ UNCHANGED notCall

\* the exception of a child leaves the root's run: middleware.py:142-144 and
\* base.py:1094-1098
Unwind ==
    /\ pc = "raised"
    /\ LET rid == fl["root"].run_id
       IN  progress' = [progress EXCEPT ![rid] = TrackFailure(@, RootPath, cur.kw, result.err)]
    /\ result' = [result EXCEPT !.kind = "err"]
    /\ pc' = "idle"
    /\ Finally
    /\ UNCHANGED <<pipe, pos, acc, cur, flowCtx, nodeGtr, fromRun, store, hasStore,
                   cache, ran, ninv, returned, pool>>
    /\ UNCHANGED notCall

InitCall == AttrFresh("Flow") /\ CtxFresh("file") /\ ExtFresh("none") /\ \E P \in Pipes : CallFresh(P)

NextCall ==
    \/ \E y \in pipe.args, from \in pipe.froms, rk \in pipe.rks, rid \in RunIdChoices :
          \E to \in (IF from = NoName THEN pipe.tos ELSE {NoName}) :
             \E from_run \in (IF from = NoName /\ to = NoName THEN {-1}
                              ELSE {-1} \cup hasStore) :
                Call(y, from, to, from_run, rk, rid)
    \/ \E fail \in BOOLEAN : Invoke(fail)
    \/ Return
    \/ Unwind

SpecCall == InitCall /\ [][NextCall]_vars

C7_CachingRoundTrip ==
    (pipe.caching /\ pc = "idle" /\ result.kind = "ret")
        => (ran[RootPath] = 0 <=> cur.prior)

C7_SharedKey ==
    /\ pipe.caching
    /\ pc = "idle"
    /\ result.kind = "ret"
    /\ ~cur.prior
    /\ ran[RootPath] = 0
    /\ result.val # RunOf(cur.y)

\* the latest call resumed the three steps from step2 with a persisted run
Resumed ==
    /\ pipe.name = "Seq3"
    /\ cur.from = Name("step2", 0)
    /\ cur.from_run # -1
    /\ cur.rid # -1

Failed(rec, e) == rec.logged /\ rec.has_input /\ rec.error = e

C10_CleanAfterCall ==
    pc = "idle" => /\ \A o \in Objs : fl[o] = NoFl
                   /\ called = NoneCalled
                   /\ tempkw = NoVal

C10_Leak ==
    /\ pc = "idle"
    /\ result.kind = "err"
    /\ fl["root"].run_id # -1 \/ tempkw # NoVal

(***************************************************************************)
(* parallel: the root's run hands the tasks of one slot to the workers of  *)
(* a pool. The workers share the root's call-count table through a manager *)
(* proxy, each of whose operations is atomic.                              *)
(***************************************************************************)
InPool == pipe.tasks > 0 /\ pc = "run"

\* utils/multiprocess.py:14-15: the worker takes the lock, gets the wrapped
\* child from the parent and releases the lock
PoolGetattr(t) ==
    /\ InPool
    /\ pool[t].pc = "new"
    /\ pool' = [pool EXCEPT ![t].pc = "got"]
    /\ UNCHANGED <<pipe, pc, pos, acc, cur, fl, called, tempkw, flowCtx, nodeGtr,
                   progress, fromRun, store, hasStore, cache, ran, ninv, returned, result>>
    /\ UNCHANGED notCall

\* base.py:1250-1257: the worker reads the table for the name of its call
PoolName(t) ==
    /\ InPool
    /\ pool[t].pc = "got"
    /\ pool' = [pool EXCEPT ![t].pc = "named", ![t].name = ChildName(called, "s")]
    /\ UNCHANGED <<pipe, pc, pos, acc, cur, fl, called, tempkw, flowCtx, nodeGtr,
                   progress, fromRun, store, hasStore, cache, ran, ninv, returned, result>>
    /\ UNCHANGED notCall

\* base.py:1260, right-hand side: self._ff_childs_called.get(name, 0)
PoolRead(t) ==
    /\ InPool
    /\ pool[t].pc = "named"
    /\ pool' = [pool EXCEPT ![t].pc = "read", ![t].cnt = called["s"]]
    /\ UNCHANGED <<pipe, pc, pos, acc, cur, fl, called, tempkw, flowCtx, nodeGtr,
                   progress, fromRun, store, hasStore, cache, ran, ninv, returned, result>>
    /\ UNCHANGED notCall

\* base.py:1260, the assignment: self._ff_childs_called[name] = ... + 1
PoolWrite(t) ==
    /\ InPool
    /\ pool[t].pc = "read"
    /\ called' = [called EXCEPT !["s"] = pool[t].cnt + 1]
    /\ pool' = [pool EXCEPT ![t].pc = "counted"]
    /\ UNCHANGED <<pipe, pc, pos, acc, cur, fl, tempkw, flowCtx, nodeGtr, progress,
                   fromRun, store, hasStore, cache, ran, ninv, returned, result>>
    /\ UNCHANGED notCall

\* base.py:1261 and the child's __call__ in the worker: the child runs and its
\* call is recorded under the name the worker has read
PoolRun(t) ==
    /\ InPool
    /\ pool[t].pc = "counted"
    /\ LET rid == fl["root"].run_id
           p == pool[t].name
       IN  /\ progress' = [progress EXCEPT
                             ![rid] = TrackSuccess(LogStatus(@, p, "run"), p, acc, RunOf(acc))]
           /\ nodeGtr' = [nodeGtr EXCEPT ![rid][p] = "unset"]
           /\ ran' = [ran EXCEPT ![p] = @ + 1]
    /\ ninv' = [ninv EXCEPT !["s"] = @ + 1]
    /\ pool' = [pool EXCEPT ![t].pc = "done"]
    /\ UNCHANGED <<pipe, pc, pos, acc, cur, fl, called, tempkw, flowCtx, fromRun, store,
                   hasStore, cache, returned, result>>
    /\ UNCHANGED notCall

InitPool == AttrFresh("Flow") /\ CtxFresh("file") /\ ExtFresh("none") /\ CallFresh(Par)

NextPool ==
    \/ \E y \in pipe.args, rid \in RunIdChoices : Call(y, NoName, NoName, -1, NoVal, rid)
    \/ \E t \in Tasks : PoolGetattr(t)
    \/ \E t \in Tasks : PoolName(t)
    \/ \E t \in Tasks : PoolRead(t)
    \/ \E t \in Tasks : PoolWrite(t)
    \/ \E t \in Tasks : PoolRun(t)
    \/ Return

SpecPool == InitPool /\ [][NextPool]_vars

PoolDone == pipe.tasks > 0 /\ cur.rid # -1 /\ \A t \in Tasks : pool[t].pc = "done"

\* C5: when the K tasks of parallel have run, whatever the interleaving of
\* the workers, no two tasks were given the same path and the run's record
\* holds K paths of the slot
C5_DistinctPaths ==
    PoolDone =>
        /\ \A t, u \in Tasks : t # u => pool[t].name # pool[u].name
        /\ Cardinality({p \in Paths : p.slot = "s" /\ progress[cur.rid][p].logged})
               = pipe.tasks

C5_Collision ==
    /\ PoolDone
    /\ \E t, u \in Tasks : t # u /\ pool[t].name = pool[u].name
    /\ Cardinality({p \in Paths : p.slot = "s" /\ progress[cur.rid][p].logged}) < pipe.tasks

(***************************************************************************)
(* Context.set from several threads or processes on one partition.         *)
(***************************************************************************)

\* context.py:66-68 func: x[name] = value
SetFunc(x, name, value) == [x EXCEPT ![name] = value]

\* a compare-and-set that stores whatever the token is
CasBlind(token, current) == TRUE

\* cache/memcached.py:78 and the memcached server: cas stores the value when
\* the entry still has the token that gets returned
CasOk(token, current) == token = current

\* context.py:57-71 Context.set(k, v), thread t writing the value t: the
\* context is valid; the memory cache has no get_then_set and the call raises
\* AttributeError
CtxSet(t, k) ==
    /\ th[t].pc = "idle"
    \* the threads are alike: they are started in the order of their numbers
    /\ \A u \in Threads : u < t => th[u].pc # "idle"
    /\ th' = [th EXCEPT ![t].pc = IF cback = "memory" THEN "failed" ELSE "enter",
                        ![t].key = k, ![t].val = t]
    /\ UNCHANGED <<cback, part, ver, lockBy>>
    /\ UNCHANGED notCtx

\* cache/filebased.py:88: with self._lock
FileAcquire(t) ==
    /\ cback = "file"
    /\ th[t].pc = "enter"
    /\ lockBy = 0
    /\ lockBy' = t
    /\ th' = [th EXCEPT ![t].pc = "locked"]
    /\ UNCHANGED <<cback, part, ver>>
    /\ UNCHANGED notCtx

\* cache/filebased.py:89: value = self._cache.get(key, default)
FileGet(t) ==
    /\ cback = "file"
    /\ th[t].pc = "locked"
    /\ th' = [th EXCEPT ![t].pc = "read", ![t].read = part]
    /\ UNCHANGED <<cback, part, ver, lockBy>>
    /\ UNCHANGED notCtx

\* cache/filebased.py:90-92: the value is changed and stored, the lock released
FileSet(t) ==
    /\ cback = "file"
    /\ th[t].pc = "read"
    /\ part' = SetFunc(th[t].read, th[t].key, th[t].val)
    /\ lockBy' = 0
    /\ th' = [th EXCEPT ![t].pc = "done", ![t].read = NoPart]
    /\ UNCHANGED <<cback, ver>>
    /\ UNCHANGED notCtx

\* cache/memcached.py:76: value, cas = self._cache.gets(key, default)
McGets(t) ==
    /\ cback = "memcached"
    /\ th[t].pc = "enter"
    /\ th' = [th EXCEPT ![t].pc = "gotten", ![t].read = part, ![t].cas = ver]
    /\ UNCHANGED <<cback, part, ver, lockBy>>
    /\ UNCHANGED notCtx

\* cache/memcached.py:77-81: the value is changed and stored by cas; when cas
\* fails the loop goes on and, at its end, RuntimeError is raised
McCas(t) ==
    /\ cback = "memcached"
    /\ th[t].pc = "gotten"
    /\ IF CasOk(th[t].cas, ver)
       THEN /\ part' = SetFunc(th[t].read, th[t].key, th[t].val)
            /\ ver' = ver + 1
            /\ th' = [th EXCEPT ![t].pc = "done", ![t].read = NoPart, ![t].cas = 0]
       ELSE /\ th' = [th EXCEPT ![t].tries = @ + 1, ![t].read = NoPart, ![t].cas = 0,
                                ![t].pc = IF th[t].tries + 1 >= MaxTry THEN "failed"
                                          ELSE "enter"]
            /\ UNCHANGED <<part, ver>>
    /\ UNCHANGED <<cback, lockBy>>
    /\ UNCHANGED notCtx

InitCtx ==
    /\ AttrFresh("Flow")
    /\ CallFresh(Seq3)
    /\ ExtFresh("none")
    /\ \E b \in {"file", "memcached", "memory"} : CtxFresh(b)

NextCtx ==
    \/ \E t \in Threads, k \in CtxKeys : CtxSet(t, k)
    \/ \E t \in Threads : FileAcquire(t)
    \/ \E t \in Threads : FileGet(t)
    \/ \E t \in Threads : FileSet(t)
    \/ \E t \in Threads : McGets(t)
    \/ \E t \in Threads : McCas(t)

SpecCtx == InitCtx /\ [][NextCtx]_vars

\* the sets of key k that have returned
Written(k) == {u \in Threads : th[u].pc = "done" /\ th[u].key = k}

\* C6: a key written by a set that has returned is in the partition, with
\* the value of a set of that key that has returned: no write is lost to a
\* set of another key
C6_NoLostWrite ==
    \A t \in Threads :
        th[t].pc = "done" => part[th[t].key] \in {th[u].val : u \in Written(th[t].key)}

C6_Contended ==
    \E t, u \in Threads :
        /\ th[t].pc = "done" /\ th[u].pc = "done"
        /\ th[t].key # th[u].key
        /\ cback = "memcached" /\ th[u].tries > 0
        /\ part[th[t].key] = th[t].val /\ part[th[u].key] = th[u].val

(***************************************************************************)
(* Dump and load of a component tree.                                      *)
(***************************************************************************)
\* the rest of the model, fresh
Rest == AttrFresh("Flow") /\ CallFresh(Seq3) /\ CtxFresh("file")

\* utils/modules.py:99-141 serialize; base.py:1146-1153 Function.params gives
\* None for a param that has no value
serialize(value) ==
    IF value.kind = "ref" THEN Val("ref", 0, value.name)
    ELSE IF value.kind = "path" THEN Val("typed", value.val, PathType)
    ELSE IF value.kind = "unset" THEN NoneVal
    ELSE value

\* base.py:1369-1408 Function.dump of a component without nodes
DumpLeaf(c) == Tree(c.function, serialize(c.p), <<>>, c.run_id)

\* base.py:1369-1408 Function.dump
dump(c) ==
    Tree(c.function, serialize(c.p), [i \in 1..Len(c.n) |-> DumpLeaf(c.n[i])], c.run_id)

\* utils/modules.py:12-47 import_dotted_string
import_dotted_string(name, sf, al) ==
    IF sf
    THEN IF ~al.given \/ name \notin al.names
         THEN [NoLoad EXCEPT !.exc = "ValueError"]
         ELSE [NoLoad EXCEPT !.func = name]
    ELSE [exc |-> "none", func |-> name, imp |-> {name}]

\* pathlib.Path(path=val): the keyword is not a parameter of Path
PathInit(r, kw) ==
    IF r.exc # "none" THEN [r EXCEPT !.func = NoneVal]
    ELSE IF kw = "TypeError" THEN [r EXCEPT !.exc = "TypeError", !.func = NoneVal]
    ELSE [r EXCEPT !.func = Val("path", 0, "")]

\* the object found under a name, as a value
Found(r) ==
    IF r.exc # "none" THEN [r EXCEPT !.func = NoneVal]
    ELSE [r EXCEPT !.func = Val("ref", 0, r.func)]

\* utils/modules.py:144-191 deserialize
deserialize(value, sf, al, kw) ==
    IF value.kind = "ref" THEN Found(import_dotted_string(value.name, sf, al))
    ELSE IF value.kind = "typed"
    THEN PathInit(import_dotted_string(value.name, sf, al), kw)
    ELSE [NoLoad EXCEPT !.func = value]

\* safe.py:41-49 the loop over obj["params"]: a param whose deserialize raises
\* is logged and left out
LoadParam(r) == IF r.exc # "none" THEN [r EXCEPT !.exc = "none", !.func = UnsetVal] ELSE r

\* config.py:130-155 Config.update_from_dict, reached from safe.py:57: a
\* "{{ name }}" value is imported with safe=False
update_from_dict(run_id) == import_dotted_string(run_id, FALSE, NoList)

\* safe.py:27-39 the type of the component
LoadCls(function, sf, al) ==
    IF sf
    THEN IF ~al.given \/ function \notin al.names
         THEN [NoLoad EXCEPT !.exc = "ValueError"]
         ELSE NoLoad
    ELSE import_dotted_string(function, sf, al)

\* the first exception of a sequence of outcomes, "none" if there is none
FirstExc(rs) ==
    IF \A i \in 1..Len(rs) : rs[i].exc = "none" THEN "none"
    ELSE rs[CHOOSE i \in 1..Len(rs) :
                /\ rs[i].exc # "none"
                /\ \A j \in 1..(i - 1) : rs[j].exc = "none"].exc

\* safe.py:56-61 cls(**params, **nodes), the update of the configs and the
\* return, given the outcomes of the steps before
Construct(function, c, p, ns, cfg) ==
    IF c.exc # "none" THEN [c EXCEPT !.func = NoTree]
    ELSE IF FirstExc(ns) # "none"
    THEN [exc |-> FirstExc(ns), func |-> NoTree, imp |-> {}]
    ELSE [exc |-> "none",
          func |-> Tree(function, p.func, [i \in 1..Len(ns) |-> ns[i].func], cfg.func),
          imp |-> c.imp \cup p.imp \cup cfg.imp
                   \cup UNION {ns[i].imp : i \in 1..Len(ns)}]

\* safe.py:11-61 load of a component without nodes
LoadLeaf(d, sf, al, kw) ==
    Construct(d.function, LoadCls(d.function, sf, al),
              LoadParam(deserialize(d.p, sf, al, kw)), <<>>, update_from_dict(d.run_id))

\* safe.py:11-61 load
load(d, sf, al, kw) ==
    Construct(d.function, LoadCls(d.function, sf, al),
              LoadParam(deserialize(d.p, sf, al, kw)),
              [i \in 1..Len(d.n) |-> LoadLeaf(d.n[i], sf, al, kw)],
              update_from_dict(d.run_id))

\* the values a param of a live component holds
LiveVals ==
    {UnsetVal, NoneVal} \cup {Val("int", v, "") : v \in 0..MaxVal}
        \cup {Val("ref", 0, name) : name \in RefNames}
        \cup {Val("path", v, "") : v \in 0..1}

\* the values a dict handed to load holds for a param
GivenVals ==
    {NoneVal} \cup {Val("int", v, "") : v \in 0..MaxVal}
        \cup {Val("ref", 0, name) : name \in RefNames}
        \cup {Val("typed", 1, PathType)}

Leaves(vals) == {Tree(f, p, <<>>, r) : f \in CompTypes, p \in vals, r \in ConfigNames}
Trees(vals) ==
    Leaves(vals) \cup {Tree("app.Comp", p, <<c>>, DefaultRunId) : p \in vals, c \in Leaves(vals)}

AllowLists ==
    {NoList} \cup {AllowList(CompTypes \cup extra) : extra \in SUBSET (RefNames \cup {PathType})}
        \cup {AllowList({"app.Comp"})}

\* base.py:1369 obj = component.dump()
Dump ==
    /\ lpc = "idle"
    /\ \E c \in Trees(LiveVals) :
        /\ live' = c
        /\ obj' = dump(c)
    /\ origin' = "dump"
    /\ lpc' = "ready"
    /\ UNCHANGED <<safe, allowed, kwinit, res, second>>
    /\ UNCHANGED notLoad

\* a dict from another source
Given ==
    /\ lpc = "idle"
    /\ obj' \in Trees(GivenVals)
    /\ origin' = "given"
    /\ lpc' = "ready"
    /\ UNCHANGED <<live, safe, allowed, kwinit, res, second>>
    /\ UNCHANGED notLoad

\* safe.py:11 load(obj, safe=sf, allowed_modules=al)
Load(sf, al) ==
    /\ lpc = "ready"
    /\ safe' = sf
    /\ allowed' = al
    /\ res' = load(obj, sf, al, kwinit)
    /\ lpc' = "loaded"
    /\ UNCHANGED <<live, obj, origin, kwinit, second>>
    /\ UNCHANGED notLoad

\* base.py:1369 the dump of the loaded component
Redump ==
    /\ lpc = "loaded"
    /\ res.exc = "none"
    /\ second' = dump(res.func)
    /\ lpc' = "redumped"
    /\ UNCHANGED <<live, obj, origin, safe, allowed, kwinit, res>>
    /\ UNCHANGED notLoad

InitLoad ==
    /\ Rest
    /\ ExtFresh("load")
    /\ live = NoTree
    /\ obj = NoTree
    /\ origin = "none"
    /\ safe = TRUE
    /\ allowed = NoList
    /\ kwinit \in {"ignored", "TypeError"}
    /\ res = NoLoad
    /\ second = NoTree
    /\ lpc = "idle"

NextLoad ==
    \/ Dump
    \/ Given
    \/ \E sf \in BOOLEAN, al \in AllowLists : Load(sf, al)
    \/ Redump

SpecLoad == InitLoad /\ [][NextLoad]_vars

\* the type names a serialized value refers to
ValNames(value) == IF value.kind \in {"ref", "typed"} THEN {value.name} ELSE {}

\* the type names a serialized tree refers to: the component types at every
\* depth of the nodes and the references in the params
Referenced(d) ==
    {d.function} \cup ValNames(d.p)
        \cup UNION {{d.n[i].function} \cup ValNames(d.n[i].p) : i \in 1..Len(d.n)}

\* C11: a safe-mode load raises ValueError and returns no component whenever
\* a type name referenced anywhere in the serialized tree is missing from the
\* allow-list, or no allow-list is supplied.
C11_SafeLoadRejects ==
    (lpc = "loaded" /\ safe /\ (~allowed.given \/ ~(Referenced(obj) \subseteq allowed.names)))
        => res.exc = "ValueError"

\* a safe load that returned a component although a param names a type that
\* the allow-list lacks
C11_Swallowed ==
    /\ lpc = "loaded" /\ safe /\ allowed.given
    /\ ~(ValNames(obj.p) \subseteq allowed.names)
    /\ res.exc = "none"
    /\ res.func.p = UnsetVal

\* C12: during a safe-mode load no name found in the serialized input is
\* resolved by an import: every resolution goes through the allow-list.
C12_NoImportInSafeMode ==
    (lpc = "loaded" /\ safe) => res.imp = {}

\* a safe load with an allow-list that resolved the run_id config of the input
\* by an import
C12_Imported ==
    /\ lpc = "loaded" /\ safe /\ allowed.given
    /\ obj.run_id \notin allowed.names
    /\ obj.run_id \in res.imp

\* C13: for every component tree, dump followed by an unsafe load yields a
\* tree whose dump equals the original dump.
C13_DumpLoadRoundTrip ==
    (lpc = "redumped" /\ origin = "dump" /\ ~safe) => second = obj

\* an unsafe load of the dump of a component whose param is a Path: the
\* second dump holds another value for the param
C13_PathLost ==
    /\ lpc = "redumped" /\ origin = "dump" /\ ~safe
    /\ live.p = Val("path", 1, "")
    /\ obj.p = Val("typed", 1, PathType)
    /\ second.p # obj.p

(***************************************************************************)
(* The HTTP backend.                                                       *)
(***************************************************************************)
\* the path state of a calling node under run r: the root has prefix "" and
\* name "" (backends/base.py:33-50), a child in slot step1 of the root has
\* prefix "." (base.py:1250-1256)
CallerStates(kind, r) ==
    IF kind = "root" THEN RunStates("", "", r, "F") ELSE RunStates(".", "step1", r, "F")

\* backends/base.py:120-133 Backend.track followed by base.py:1041-1051: a
\* node whose prefix is empty takes itself for the root and draws a new run id
\* from config.run_id
RemoteStates(states, r) ==
    IF states.prefix = "" THEN [states EXCEPT !.run_id = r] ELSE states

\* http_sync.py:85-99 exec: a fresh id, and the payload stored under it.  The
\* flow partition of the run exists by then: the root creates it at
\* base.py:1051, before any exec of the run.
HttpExec(c, kind, y, r) ==
    /\ hexec[c].pc = "idle"
    /\ kind = "root" => r \notin flowctx
    /\ \E u \in Lowest({v \in Uuids : gstore[v].none}) :
        /\ hexec' = [hexec EXCEPT ![c] = [pc |-> "stored", args |-> y,
                                         states |-> CallerStates(kind, r), uuid |-> u,
                                         result |-> NoVal]]
        /\ gstore' = [gstore EXCEPT ![u] = Payload(y, CallerStates(kind, r), FALSE, NoVal)]
    /\ flowctx' = flowctx \cup {r}
    /\ UNCHANGED predict
    /\ UNCHANGED notHttp

\* http_sync.py:102 the GET request with params {"id": uuid}
HttpRequest(c) ==
    /\ hexec[c].pc = "stored"
    /\ hexec' = [hexec EXCEPT ![c].pc = "waiting"]
    /\ predict' = [predict EXCEPT ![c] = [NoPredict EXCEPT !.pc = "get", !.id = hexec[c].uuid]]
    /\ UNCHANGED <<gstore, flowctx>>
    /\ UNCHANGED notHttp

\* http_sync.py:150-155 predict: the payload of the id
PredictGet(c) ==
    /\ predict[c].pc = "get"
    /\ predict' = [predict EXCEPT ![c].context = gstore[predict[c].id],
                                  ![c].pc = IF gstore[predict[c].id].none
                                            THEN "RuntimeError" ELSE "call"]
    /\ UNCHANGED <<hexec, gstore, flowctx>>
    /\ UNCHANGED notHttp

\* http_sync.py:156-160 func(*args, **kwargs, __fl_runstates__=...): with an
\* empty prefix Function.__call__ creates the flow partition of the run id it
\* drew (base.py:1049-1051), and create_context raises when the partition
\* exists (context.py:133-136)
PredictCall(c, r) ==
    /\ predict[c].pc = "call"
    /\ IF predict[c].context.states.prefix = "" /\ r \in flowctx
       THEN /\ predict' = [predict EXCEPT ![c].pc = "ValueError"]
            /\ UNCHANGED flowctx
       ELSE /\ predict' = [predict EXCEPT
                ![c].pc = "set",
                ![c].args = predict[c].context.args,
                ![c].states = RemoteStates(predict[c].context.states, r),
                ![c].result = RunOf(predict[c].context.args)]
            /\ flowctx' = flowctx \cup {RemoteStates(predict[c].context.states, r).run_id}
    /\ UNCHANGED <<hexec, gstore>>
    /\ UNCHANGED notHttp

\* http_sync.py:161-164 predict: the result stored under the id, then the
\* response
PredictSet(c) ==
    /\ predict[c].pc = "set"
    /\ gstore' = [gstore EXCEPT ![predict[c].id] =
                    [predict[c].context EXCEPT !.has_result = TRUE,
                                               !.result = predict[c].result]]
    /\ predict' = [predict EXCEPT ![c].pc = "responded"]
    /\ UNCHANGED <<hexec, flowctx>>
    /\ UNCHANGED notHttp

\* http_sync.py:103-113 exec after the response: raise_for_status, then the
\* result read under the id
HttpReturn(c) ==
    /\ hexec[c].pc = "waiting"
    /\ predict[c].pc \in {"responded", "RuntimeError", "ValueError"}
    /\ hexec' = [hexec EXCEPT
            ![c].pc = IF predict[c].pc # "responded" THEN "HTTPError"
                      ELSE IF gstore[hexec[c].uuid].none THEN "RuntimeError"
                      ELSE "returned",
            ![c].result = IF predict[c].pc = "responded" /\ ~gstore[hexec[c].uuid].none
                          THEN gstore[hexec[c].uuid].result ELSE NoVal]
    /\ UNCHANGED <<predict, gstore, flowctx>>
    /\ UNCHANGED notHttp

InitHttp == Rest /\ ExtFresh("http") /\ HttpFresh

NextHttp ==
    \/ \E c \in HttpCalls, kind \in {"root", "child"}, y \in {IntVal(v) : v \in 0..MaxArg},
          r \in RunIds : HttpExec(c, kind, y, r)
    \/ \E c \in HttpCalls : HttpRequest(c)
    \/ \E c \in HttpCalls : PredictGet(c)
    \/ \E c \in HttpCalls, r \in RunIds : PredictCall(c, r)
    \/ \E c \in HttpCalls : PredictSet(c)
    \/ \E c \in HttpCalls : HttpReturn(c)

SpecHttp == InitHttp /\ [][NextHttp]_vars

\* the request of call c was issued
Requested(c) == hexec[c].pc \in {"waiting", "returned", "HTTPError", "RuntimeError"}
\* the remote side ran the call of c
RemoteRan(c) == predict[c].pc \in {"set", "responded"}

\* C14: for every call through the HTTP backend the payload (args and the
\* caller's path state) is stored under a fresh id before the request, the
\* request carries that id, the remote side runs with exactly those args and
\* the caller's prefix, name, run id and flow name and stores the result under
\* the same id before it responds, and the caller returns exactly that result;
\* concurrent calls do not read each other's payload or result.
C14_HttpContract ==
    \A c \in HttpCalls :
        /\ \A d \in HttpCalls \ {c} :
            hexec[c].uuid # NoUuid => hexec[c].uuid # hexec[d].uuid
        /\ Requested(c) =>
            /\ ~gstore[hexec[c].uuid].none
            /\ gstore[hexec[c].uuid].args = hexec[c].args
            /\ gstore[hexec[c].uuid].states = hexec[c].states
            /\ predict[c].id = hexec[c].uuid
        /\ RemoteRan(c) =>
            /\ predict[c].args = hexec[c].args
            /\ predict[c].states = hexec[c].states
        /\ predict[c].pc = "responded" =>
            /\ gstore[predict[c].id].has_result
            /\ gstore[predict[c].id].result = predict[c].result
        /\ hexec[c].pc = "returned" =>
            /\ predict[c].pc = "responded"
            /\ hexec[c].result = predict[c].result
            /\ hexec[c].result = RunOf(hexec[c].args)

\* the call of a root through the HTTP backend returned, and the remote side
\* ran it under another run id than the caller's
C14_RootRerun ==
    \E c \in HttpCalls :
        /\ hexec[c].pc = "returned"
        /\ hexec[c].states.prefix = ""
        /\ predict[c].states.run_id # hexec[c].states.run_id

(***************************************************************************)
(* The check of a root call for a cyclic pipeline.                         *)
(***************************************************************************)
\* debug.py:80-83 the components in the node slots of component i: for node in
\* to_do._ff_nodes, target = to_do.get_from_path(node), an empty slot skipped
Targets(g, i) ==
    IF g.cyclic THEN [j \in 1..g.k |-> (i % g.len) + 1]
    ELSE IF i < g.len THEN [j \in 1..g.k |-> i + 1]
    ELSE <<>>

\* base.py:1041-1043 a root call starts the walk: to_dos = [a]
CycStart(g) ==
    /\ cpc = "idle"
    /\ graph' = g
    /\ to_dos' = <<1>>
    /\ to_do_idx' = 0
    /\ threshold_idx' = 0
    /\ cpc' = "check"
    /\ UNCHANGED notCyc

\* debug.py:77-91 one round of the while loop: every node of to_do is appended
\* and counted; the bound is tested between rounds only
CycWalk ==
    /\ cpc = "check"
    /\ threshold_idx < MaxNodeConnections /\ to_do_idx < Len(to_dos)
    /\ to_dos' = to_dos \o Targets(graph, to_dos[to_do_idx + 1])
    /\ threshold_idx' = threshold_idx + Len(Targets(graph, to_dos[to_do_idx + 1]))
    /\ to_do_idx' = to_do_idx + 1
    /\ UNCHANGED <<graph, cpc>>
    /\ UNCHANGED notCyc

\* debug.py:96 the verdict of the walk
LikelyCyclic(idx) == idx = MaxNodeConnections

\* debug.py:96 and base.py:1044-1047: the end of the walk, then the error or
\* the rest of the call
CycEnd ==
    /\ cpc = "check"
    /\ ~(threshold_idx < MaxNodeConnections /\ to_do_idx < Len(to_dos))
    /\ cpc' = IF LikelyCyclic(threshold_idx) THEN "CyclicPipelineError" ELSE "run"
    /\ UNCHANGED <<graph, to_dos, to_do_idx, threshold_idx>>
    /\ UNCHANGED notCyc

InitCyc == Rest /\ ExtFresh("cyc") /\ CycFresh

NextCyc ==
    \/ \E g \in Graphs : CycStart(g)
    \/ CycWalk
    \/ CycEnd

SpecCyc == InitCyc /\ [][NextCyc]_vars

\* C15: a root call on a pipeline whose node graph has a cycle reachable from
\* the root raises CyclicPipelineError before any run, however many node
\* slots the components on the cycle declare.
C15_CycleRejected ==
    (graph.cyclic /\ cpc \notin {"idle", "check"}) => cpc = "CyclicPipelineError"

\* a cycle of components with three node slots each: the count passes the
\* bound without being equal to it, and the call goes on to run
C15_Missed ==
    /\ graph.cyclic /\ graph.k = 3
    /\ cpc = "run"
    /\ threshold_idx > MaxNodeConnections

(***************************************************************************)
(* The declaration of a component type.                                    *)
(***************************************************************************)
\* debug.py:49 spec["auto_callback"] or spec["default_callback"]
HasCallback(T, f) == SpecOf(T, f).kind \in {"auto", "defcb"}

\* debug.py:45-56 the dependency graph: attr -> the callback-bearing fields
\* among its depends_on
DependencyGraph(T) ==
    [f \in Fields |->
        IF IsAttr(T, f) /\ HasCallback(T, f)
        THEN {g \in Fields : /\ \E i \in 1..Len(SpecOf(T, f).deps) : SpecOf(T, f).deps[i] = g
                             /\ HasCallback(T, g)}
        ELSE {}]

\* the vertices reached from the set S in at most n more steps
RECURSIVE Visit(_, _, _)
Visit(G, S, n) ==
    IF n = 0 THEN S ELSE Visit(G, S \cup UNION {G[v] : v \in S}, n - 1)

\* debug.py:7-30 has_cycle: the depth-first walk finds a neighbour on its path
\* exactly when a vertex reaches itself
has_cycle(G) == \E v \in Fields : v \in Visit(G, G[v], Cardinality(Fields))

\* debug.py:33-58 has_cyclic_dependency
has_cyclic_dependency(T) == has_cycle(DependencyGraph(T))

\* base.py:826-872 MetaFunction.__new__: the descriptors are completed and the
\* names are checked (no leading underscore, no protected keyword); the
\* dependencies of the fields are not looked at
MetaFunctionNew(T) ==
    IF \E f \in Declared(T) : f \in {"run", "config", "context", "fl"}
    THEN "ValueError" ELSE "declared"

\* C16: a component type whose callback-bearing fields form a depends_on
\* cycle is rejected with a cyclic-dependency error when it is declared,
\* before any instance of it executes anything.
C16_CyclicTypeRejected ==
    has_cyclic_dependency(cls) => MetaFunctionNew(cls) = "CyclicDependencyError"

\* an instance of a type with a depends_on cycle exists and a field of it was
\* accessed: the cycle is reported by the access only
C16_CyclicTypeRuns ==
    /\ has_cyclic_dependency(cls)
    /\ MetaFunctionNew(cls) = "declared"
    /\ last.op = "get" /\ last.err = "cyclic"

(***************************************************************************)
(* The operations of the Context on its partitions.                        *)
(***************************************************************************)
\* every name passes for a partition of the cache
is_context_valid_any(st, c) == TRUE

\* context.py:35-55 _is_context_valid: `context in self._cache` (None stands
\* for the global partition, which exists)
is_context_valid(st, c) == st[c].exists

\* cache/filebased.py:87-92 get_then_set(context, func, default={}) with the
\* func of Context.set: x[name] = value
GetThenSet(st, c, k, v) == [st EXCEPT ![c] = Partition(TRUE, [st[c].vals EXCEPT ![k] = v])]

\* context.py:57-71 Context.set
CtxSetTo(st, al, c, k, v) ==
    IF ~is_context_valid(st, c) THEN Outcome("ValueError", NoEntry, st, al)
    ELSE Outcome("none", NoEntry, GetThenSet(st, c, k, v), al)

\* context.py:73-87 Context.get, name None for k = "*"
CtxGetFrom(st, al, c, k) ==
    IF ~is_context_valid(st, c) THEN Outcome("ValueError", NoEntry, st, al)
    ELSE Outcome("none", IF k = "*" THEN NoEntry ELSE st[c].vals[k], st, al)

\* context.py:89-108 Context.clear, name None for k = "*"
CtxClearIn(st, al, c, k) ==
    IF ~is_context_valid(st, c) THEN Outcome("ValueError", NoEntry, st, al)
    ELSE IF k = "*" THEN Outcome("none", NoEntry, [st EXCEPT ![c] = Partition(TRUE, NoPart)], al)
    ELSE Outcome("none", NoEntry, GetThenSet(st, c, k, NoEntry), al)

\* context.py:119-147 Context.create_context
create_context(st, al, c, exist_ok) ==
    IF st[c].exists
    THEN IF exist_ok THEN Outcome("none", NoEntry, st, al)
         ELSE Outcome("ValueError", NoEntry, st, al)
    ELSE Outcome("none", NoEntry, [st EXCEPT ![c] = Partition(TRUE, NoPart)], Append(al, c))

\* the record of an operation with outcome r
CtxOp(op, c, exist_ok, r) ==
    [op |-> op, context |-> c, exist_ok |-> exist_ok, exc |-> r.exc, ret |-> r.ret,
     before |-> cstore, all_before |-> allctx]

\* context.py:57 context.set(k, v, context=c)
StoreSet(c, k, v) ==
    /\ cop' = CtxOp("set", c, FALSE, CtxSetTo(cstore, allctx, c, k, v))
    /\ cstore' = CtxSetTo(cstore, allctx, c, k, v).cache
    /\ UNCHANGED allctx
    /\ UNCHANGED notStore

\* context.py:73 context.get(k, context=c)
StoreGet(c, k) ==
    /\ cop' = CtxOp("get", c, FALSE, CtxGetFrom(cstore, allctx, c, k))
    /\ cstore' = CtxGetFrom(cstore, allctx, c, k).cache
    /\ UNCHANGED allctx
    /\ UNCHANGED notStore

\* context.py:89 context.clear(k, context=c)
StoreClear(c, k) ==
    /\ cop' = CtxOp("clear", c, FALSE, CtxClearIn(cstore, allctx, c, k))
    /\ cstore' = CtxClearIn(cstore, allctx, c, k).cache
    /\ UNCHANGED allctx
    /\ UNCHANGED notStore

\* context.py:119 context.create_context(c, exist_ok)
StoreCreate(c, exist_ok) ==
    /\ cop' = CtxOp("create", c, exist_ok, create_context(cstore, allctx, c, exist_ok))
    /\ cstore' = create_context(cstore, allctx, c, exist_ok).cache
    /\ allctx' = create_context(cstore, allctx, c, exist_ok).all
    /\ UNCHANGED notStore

InitStore == Rest /\ ExtFresh("store") /\ StoreFresh

NextStore ==
    \/ \E c \in Contexts, k \in CtxKeys, v \in 0..MaxVal : StoreSet(c, k, v)
    \/ \E c \in Contexts, k \in CtxKeys \cup {"*"} : StoreGet(c, k)
    \/ \E c \in Contexts, k \in CtxKeys \cup {"*"} : StoreClear(c, k)
    \/ \E c \in Contexts, exist_ok \in BOOLEAN : StoreCreate(c, exist_ok)

SpecStore == InitStore /\ [][NextStore]_vars

\* the latest operation left the cache as it was
StoreUnchanged == cstore = cop.before /\ allctx = cop.all_before

\* C17: set, get and clear on a partition that was not created raise and
\* leave the store unchanged; create_context on an existing partition returns
\* without changing anything when exist_ok is true, and raises and changes
\* nothing when it is false.
C17_PartitionErrors ==
    /\ (cop.op \in {"set", "get", "clear"} /\ ~cop.before[cop.context].exists)
        => (cop.exc = "ValueError" /\ StoreUnchanged)
    /\ (cop.op = "create" /\ cop.before[cop.context].exists)
        => /\ StoreUnchanged
           /\ cop.exc = (IF cop.exist_ok THEN "none" ELSE "ValueError")

\* a set on a partition that was not created raised, while the global
\* partition holds values
C17_Refused ==
    /\ cop.op = "set" /\ ~cop.before[cop.context].exists
    /\ cop.exc = "ValueError"
    /\ cstore[GlobalKey].vals # NoPart

(***************************************************************************)
(* Publishing and subscribing params.                                      *)
(***************************************************************************)
\* base.py:147-190 Attr.__get__ of a param without auto_callback: the value in
\* obj._attrx, else the default, else the default_callback, else unset
AttrValue(c, name, ax) ==
    IF ax[c][name] # NoEntry THEN [val |-> ax[c][name], from |-> "assigned"]
    ELSE IF PubDecl(c, name).dflt # NoEntry
    THEN [val |-> PubDecl(c, name).dflt, from |-> "default"]
    ELSE IF PubDecl(c, name).cb # NoEntry
    THEN [val |-> PubDecl(c, name).cb, from |-> "callback"]
    ELSE [val |-> NoEntry, from |-> "unset"]

\* every value is looked up in the published partition
NeedsPublishedAlways(r) == TRUE

\* base.py:463 `if value == unset`
NeedsPublished(r) == r.val = NoEntry

\* base.py:464 `obj.config.params_subscribe and obj.fl.prefix`: subscription
\* is on by default (config.py:35), and only the root has an empty prefix
Subscribes(c, run) == run /\ c # "root"

\* base.py:454-474 ParamAttr.__get__
ParamAttrGet(c, name, ax, pub, run) ==
    IF NeedsPublished(AttrValue(c, name, ax)) /\ Subscribes(c, run) /\ pub.exists
       /\ pub.vals[name] # NoEntry
    THEN [val |-> pub.vals[name], from |-> "published"]
    ELSE AttrValue(c, name, ax)

\* base.py:189 and 471-472: a value that is not unset is kept in obj._attrx
Kept(ax, c, name, r) == IF r.val # NoEntry THEN [ax EXCEPT ![c][name] = r.val] ELSE ax

\* base.py:1292 setattr(component, name, v) before a call; the root allows
\* extra params (tests/test_config.py:28-30)
PubSet(c, name, v) ==
    /\ ~running
    /\ PubDecl(c, name).declared \/ c = "root"
    /\ pattrx' = [pattrx EXCEPT ![c][name] = v]
    /\ UNCHANGED <<pubpart, running, got>>
    /\ UNCHANGED notPub

\* base.py:1146-1153 self.params, then the extra params: the values the root
\* publishes
RootParams(ax) ==
    [name \in PubParams |->
        IF PubDecl("root", name).declared
        THEN ParamAttrGet("root", name, ax, pubpart, FALSE).val
        ELSE ax["root"][name]]

\* the root after self.params resolved its declared params
RootKept(ax) ==
    [ax EXCEPT !["root"] = [name \in PubParams |->
        IF PubDecl("root", name).declared THEN RootParams(ax)[name] ELSE ax["root"][name]]]

\* base.py:1041-1072 the call of the root with params_publish: the partition
\* is created and every param of the root is set in it
PubCall ==
    /\ ~running
    /\ running' = TRUE
    /\ pubpart' = [exists |-> TRUE, vals |-> RootParams(pattrx)]
    /\ pattrx' = RootKept(pattrx)
    /\ UNCHANGED got
    /\ UNCHANGED notPub

\* getattr(c, name) during the run (in the call of c) or outside a run
PubGet(c, name) ==
    /\ PubDecl(c, name).declared
    /\ got' = [comp |-> c, name |-> name,
               val |-> ParamAttrGet(c, name, pattrx, pubpart, running).val,
               from |-> ParamAttrGet(c, name, pattrx, pubpart, running).from,
               before |-> pattrx[c][name]]
    /\ pattrx' = Kept(pattrx, c, name, ParamAttrGet(c, name, pattrx, pubpart, running))
    /\ UNCHANGED <<pubpart, running>>
    /\ UNCHANGED notPub

\* base.py:1090-1095 the end of the call of the root: context.clear(None, ...)
PubEnd ==
    /\ running
    /\ running' = FALSE
    /\ pubpart' = [exists |-> TRUE, vals |-> [name \in PubParams |-> NoEntry]]
    /\ UNCHANGED <<pattrx, got>>
    /\ UNCHANGED notPub

\* base.py:1086-1098 the call of the root raises: the except clause re-raises
\* and the finally clause clears only the component's own state
PubRaise ==
    /\ running
    /\ running' = FALSE
    /\ UNCHANGED <<pubpart, pattrx, got>>
    /\ UNCHANGED notPub

InitPub == Rest /\ ExtFresh("pub") /\ PubFresh

NextPub ==
    \/ \E c \in PubComps, name \in PubParams : PubSet(c, name, MaxVal)
    \/ PubCall
    \/ \E c \in PubComps, name \in PubParams : PubGet(c, name)
    \/ PubEnd
    \/ PubRaise

SpecPub == InitPub /\ [][NextPub]_vars

UnresolvedGet ==
    /\ last.op = "get"
    /\ SpecOf(cls, last.f).kind = "unset"
    /\ attrx[last.f] = Absent

\* C18: the access of a declared param or node that has no assigned value, no
\* default, no default_callback and no auto_callback fails with a "missing"
\* error raised to the caller and yields no value.
C18_MissingRaises == UnresolvedGet => last.err = "missing"

\* the access of the unset param returned the unset marker to the caller
C18_UnsetReturned ==
    /\ UnresolvedGet
    /\ last.err = "none"
    /\ last.v = Unset.v

(***************************************************************************)
(* The construction of the middleware chain and a call through it.         *)
(***************************************************************************)
\* the list in the order it is configured
NotReversed(cfg) == cfg

\* base.py:971 reversed(middlware_cfg)
Reversed(cfg) == [i \in 1..Len(cfg) |-> cfg[Len(cfg) + 1 - i]]

\* base.py:969-975 the loop over rev from position i on, next_call being
\* `chain` followed by self._runx: a name switched off is skipped, any other
\* wraps next_call
RECURSIVE Wrap(_, _, _, _)
Wrap(rev, i, off, chain) ==
    IF i > Len(rev) THEN chain
    ELSE IF rev[i] \in off THEN Wrap(rev, i + 1, off, chain)
    ELSE Wrap(rev, i + 1, off, <<rev[i]>> \o chain)

\* base.py:960-976 Function.__init__: collect middleware
BuildChain(cfg, off) == Wrap(Reversed(cfg), 1, off, <<>>)

\* the lists of at most MaxMw names
MwLists == UNION {[1..n -> MwNames] : n \in 0..MaxMw}

\* base.py:960-977 Function.__init__ under a middleware list and switches
MwInit(cfg, off) ==
    /\ mpc = "new"
    /\ mwcfg' = cfg
    /\ mwoff' = off
    /\ mwchain' = BuildChain(cfg, off)
    /\ mwnone' = (cfg = <<>>)
    /\ mwtrace' = <<>>
    /\ mpc' = "idle"
    /\ UNCHANGED notMw

\* base.py:1087 func = self._middleware if self._middleware else self._runx
MwCall ==
    /\ mpc \in {"idle", "run", "returned"}
    /\ mwtrace' = <<>>
    /\ mpc' = IF mwnone \/ mwchain = <<>> THEN "run" ELSE "chain"
    /\ UNCHANGED <<mwcfg, mwoff, mwchain, mwnone>>
    /\ UNCHANGED notMw

\* middleware.py: the __call__ of the next wrapper: it calls next_call, or it
\* returns without (CachingMiddleware on a hit, middleware.py:182-183;
\* SkipComponentMiddleware for a skipped step, middleware.py:94-101)
MwEnter(pass) ==
    /\ mpc = "chain"
    /\ pass \/ mwchain[Len(mwtrace) + 1] # "TrackProgressMiddleware"
    /\ mwtrace' = Append(mwtrace, mwchain[Len(mwtrace) + 1])
    /\ mpc' = IF ~pass THEN "returned"
              ELSE IF Len(mwtrace) + 1 = Len(mwchain) THEN "run" ELSE "chain"
    /\ UNCHANGED <<mwcfg, mwoff, mwchain, mwnone>>
    /\ UNCHANGED notMw

InitMw == Rest /\ ExtFresh("mw") /\ MwFresh

NextMw ==
    \/ \E cfg \in MwLists, off \in SUBSET MwNames : MwInit(cfg, off)
    \/ MwCall
    \/ \E pass \in BOOLEAN : MwEnter(pass)

SpecMw == InitMw /\ [][NextMw]_vars

\* the middleware of the list whose switch is on, in the order of the list
SwitchedOn == SelectSeq(mwcfg, LAMBDA m : m \notin mwoff)

\* C20: the chain built at construction holds exactly the middleware whose
\* switch is on; a call enters them in declaration order, the first-declared
\* first, each once, before it reaches run; with an empty list or all
\* switches off there is no middleware and run is called directly.
C20_ChainOrder ==
    mpc # "new" =>
        /\ mwchain = SwitchedOn
        /\ Len(mwtrace) <= Len(SwitchedOn)
        /\ mwtrace = SubSeq(SwitchedOn, 1, Len(mwtrace))
        /\ mpc = "run" => mwtrace = SwitchedOn
        /\ (mwnone => mwcfg = <<>>)
        /\ (mwcfg = <<>> \/ \A i \in 1..Len(mwcfg) : mwcfg[i] \in mwoff)
            => (mwchain = <<>> /\ mpc # "chain")

\* a call reached run through two different middleware of a list of three
\* names, one of them switched off
C20_ThroughChain ==
    /\ mpc = "run"
    /\ Len(mwtrace) = 2
    /\ mwtrace[1] # mwtrace[2]
    /\ Len(mwcfg) = 3
    /\ mwoff # {}

(***************************************************************************)
(* Writes to computed fields.                                              *)
(***************************************************************************)
\* gets and assignments on a component outside a run
NextAssign ==
    \/ \E f \in Fields : Get(f)
    \/ \E f \in Fields : Set(f)

SpecAssign == InitDepend /\ [][NextAssign]_vars

\* the step is a setattr of field f by the caller
SetStep(f) == last'.op = "set" /\ last'.f = f /\ inRun' = inRun

\* C21: assigning a value to an auto-callback field is rejected with an error,
\* and the component's stored values and recorded dependency identities are
\* the same after the assignment as before it.
C21_AutoSetRejected ==
    [][\A f \in Fields :
          (SetStep(f) /\ SpecOf(cls, f).kind = "auto")
              => /\ last'.err = "value"
                 /\ attrx' = attrx
                 /\ ffdepends' = ffdepends
                 /\ toCheck' = toCheck]_vars

\* the assignment to z was rejected after z had been computed and the
\* identity of its dependency recorded
C21_RejectedAfterGet ==
    /\ cls = "FlowDepend"
    /\ last.op = "set" /\ last.f = "z" /\ last.err = "value"
    /\ attrx["z"] # Absent
    /\ ffdepends["z"]["y"] # NoId

(***************************************************************************)
(* The stop point of a root call.                                          *)
(***************************************************************************)
\* the latest call of the three steps was given to = ".step2" and a persisted
\* run that holds the output of step3, and it returned
StoppedAt ==
    /\ pipe.name = "Seq3"
    /\ cur.to = Name("step2", 0)
    /\ cur.from_run # -1
    /\ store[cur.from_run][Name("step3", 0)].logged
    /\ pc = "idle"
    /\ result.kind = "ret"

\* C22: a root call with the stop point to = p executes the node at path p,
\* and does not execute the nodes invoked after it under the same parent in
\* that run: their outputs are those of the loaded previous run.
C22_StopAfterTo ==
    StoppedAt =>
        /\ ran[Name("step2", 0)] = 1
        /\ ran[Name("step3", 0)] = 0
        /\ progress[cur.rid][Name("step3", 0)].output
               = store[cur.from_run][Name("step3", 0)].output

\* step2 was the stop point and good_to_run was set to False in the partition
\* of the flow, the partition of the parent still lets step3 run, and step3
\* was executed
C22_RanPastTo ==
    /\ StoppedAt
    /\ flowCtx[cur.rid].gtr = "false"
    /\ GoodToRun(nodeGtr[cur.rid][RootPath])
    /\ ran[Name("step2", 0)] = 1
    /\ ran[Name("step3", 0)] = 1
    /\ progress[cur.rid][Name("step3", 0)].status = "run"

(***************************************************************************)
(* The call index of the tasks of parallel.                                *)
(***************************************************************************)
\* the worker of task t has read the name of its call from the table
Named(t) == pool[t].pc \in {"named", "read", "counted", "done"}

\* C23: under parallel the call index of a task, and with it the suffix of
\* its path, is given by the position of the task in the submitted list,
\* whatever the order in which the workers pick up and run the tasks.
C23_IndexBySubmission ==
    (pipe.tasks > 0 /\ cur.rid # -1) =>
        \A t \in Tasks : Named(t) => pool[t].name = Name("s", t - 1)

\* all tasks have run with distinct paths, and the first task of the list
\* has the path with index 1 while the second has the path without index
C23_ByArrival ==
    /\ PoolDone
    /\ pool[1].name = Name("s", 1)
    /\ pool[2].name = Name("s", 0)

(***************************************************************************)
(* Two threads call one root object whose run invokes the slot s MaxDup    *)
(* times (tests/test_workflow.py), each thread in a run of its own.        *)
(***************************************************************************)
\* base.py:1026-1088 and 1014-1017: the thread enters __call__; run id,
\* flow name and in_run go to the thread's entries of the Backend
ThrCall(t) ==
    /\ tend[t] = "new"
    /\ tfl' = [tfl EXCEPT ![t] = [in_run |-> TRUE, run_id |-> t]]
    /\ tend' = [tend EXCEPT ![t] = "run"]
    /\ UNCHANGED <<tcalled, tn, tlog>>
    /\ UNCHANGED notThr

\* base.py:1249-1261 exec: the run of the thread invokes s; the name is read
\* from the object's table, the table counts the call, and the child's call
\* is recorded under that name in the run of the thread
ThrInvoke(t) ==
    /\ tend[t] = "run"
    /\ tn[t] < MaxDup
    /\ tlog' = [tlog EXCEPT ![t] = @ \cup {ChildName([s |-> tcalled], "s").k}]
    /\ tcalled' = NextCalled([s |-> tcalled], "s")["s"]
    /\ tn' = [tn EXCEPT ![t] = @ + 1]
    /\ UNCHANGED <<tfl, tend>>
    /\ UNCHANGED notThr

\* base.py:1094-1098 finally: self._variablex() replaces the object's table by
\* an empty one, self.fl.clear() drops the entries of the calling thread; the
\* run returns after its last invocation or raises at any point
ThrEnd(t, fail) ==
    /\ tend[t] = "run"
    /\ fail \/ tn[t] = MaxDup
    /\ tcalled' = 0
    /\ tfl' = [tfl EXCEPT ![t] = NoTrack]
    /\ tend' = [tend EXCEPT ![t] = IF fail THEN "err" ELSE "ret"]
    /\ UNCHANGED <<tn, tlog>>
    /\ UNCHANGED notThr

InitThr == Rest /\ ExtFresh("thr") /\ ThrFresh

NextThr ==
    \/ \E t \in Runners : ThrCall(t)
    \/ \E t \in Runners : ThrInvoke(t)
    \/ \E t \in Runners, fail \in BOOLEAN : ThrEnd(t, fail)

SpecThr == InitThr /\ [][NextThr]_vars

\* C24: when one component object takes part in concurrent runs on different
\* threads, the paths recorded in a run for the repeated invocations of one
\* slot are pairwise distinct, and while the call of a thread is in progress
\* its run id and the call count it relies on are not reset by the end of
\* another thread's call.
C24_ThreadIsolation ==
    \A t \in Runners :
        /\ Cardinality(tlog[t]) = tn[t]
        /\ tend[t] = "run" => /\ tfl[t] = [in_run |-> TRUE, run_id |-> t]
                              /\ tcalled >= tn[t]

\* the call of one thread has ended and emptied the table while the other
\* thread was between two invocations: both invocations of that thread were
\* recorded under the same path
C24_SharedTable ==
    \E t, u \in Runners :
        /\ t # u
        /\ tend[u] \in {"ret", "err"}
        /\ tend[t] = "run"
        /\ tn[t] = 2
        /\ Cardinality(tlog[t]) = 1

(***************************************************************************)
(* create_context and set by concurrent callers.  The test of membership,  *)
(* the write of the empty partition and get_then_set are separate          *)
(* operations of the cache; get_then_set runs under the lock of the cache. *)
(***************************************************************************)
Idle(t) == rproc[t].pc = "idle"

\* context.py:132-138: `if context in self._cache`: return when exist_ok,
\* raise otherwise; go on when the partition is not there
RaceCreateCheck(t, exist_ok) ==
    /\ Idle(t)
    /\ rproc' = [rproc EXCEPT ![t] =
                    IF rcache[RacePart].exists
                    THEN [@ EXCEPT !.ok = FALSE,
                                   !.did = IF exist_ok THEN "found" ELSE "ValueError"]
                    ELSE [@ EXCEPT !.ok = exist_ok, !.pc = "checked"]]
    /\ UNCHANGED <<rcache, rall, rset>>
    /\ UNCHANGED notRace

\* context.py:144: self._cache.set(context, {})
RaceCreateWrite(t) ==
    /\ rproc[t].pc = "checked"
    /\ rcache' = [rcache EXCEPT ![RacePart] = Partition(TRUE, NoPart)]
    /\ rproc' = [rproc EXCEPT ![t].pc = "written"]
    /\ UNCHANGED <<rall, rset>>
    /\ UNCHANGED notRace

\* context.py:145-147: the name is appended to "__all_contexts__"
RaceCreateRegister(t) ==
    /\ rproc[t].pc = "written"
    /\ rall' = rall + 1
    /\ rproc' = [rproc EXCEPT ![t].pc = "idle", ![t].did = "created"]
    /\ UNCHANGED <<rcache, rset>>
    /\ UNCHANGED notRace

\* context.py:70: _is_context_valid(context)
RaceSetCheck(t, k, v) ==
    /\ Idle(t)
    /\ rproc' = [rproc EXCEPT ![t] =
                    IF is_context_valid(rcache, RacePart)
                    THEN [@ EXCEPT !.pc = "valid", !.key = k, !.val = v]
                    ELSE [@ EXCEPT !.did = "ValueError"]]
    /\ UNCHANGED <<rcache, rall, rset>>
    /\ UNCHANGED notRace

\* context.py:71: self._cache.get_then_set(context, func=func, default={})
RaceSetApply(t) ==
    /\ rproc[t].pc = "valid"
    /\ rcache' = GetThenSet(rcache, RacePart, rproc[t].key, rproc[t].val)
    /\ rset' = [rset EXCEPT ![rproc[t].key] = rproc[t].val]
    /\ rproc' = [rproc EXCEPT ![t] = [NoCaller EXCEPT !.did = "set"]]
    /\ UNCHANGED rall
    /\ UNCHANGED notRace

InitRace == Rest /\ ExtFresh("race") /\ RaceFresh

NextRace ==
    \/ \E t \in Callers, exist_ok \in BOOLEAN : RaceCreateCheck(t, exist_ok)
    \/ \E t \in Callers : RaceCreateWrite(t)
    \/ \E t \in Callers : RaceCreateRegister(t)
    \/ \E t \in Callers, k \in CtxKeys, v \in 0..MaxVal : RaceSetCheck(t, k, v)
    \/ \E t \in Callers : RaceSetApply(t)

SpecRace == InitRace /\ [][NextRace]_vars

\* C25: create_context(p, exist_ok=True) is atomic with respect to the other
\* operations on p: when a caller runs it while another caller creates p and
\* sets a key in it, then once the operations have completed the key is in p
\* with the value that was set.
C25_CreateAtomic ==
    (\A t \in Callers : Idle(t)) =>
        \A k \in CtxKeys : rset[k] # NoEntry => rcache[RacePart].vals[k] = rset[k]

\* a create_context with exist_ok=True and a set of another caller have both
\* completed, and the key that was set is not in the partition
C25_KeyWiped ==
    \E t, u \in Callers :
        /\ t # u
        /\ \A w \in Callers : Idle(w)
        /\ rproc[t].did = "created" /\ rproc[t].ok
        /\ rproc[u].did = "set"
        /\ \E k \in CtxKeys : rset[k] # NoEntry /\ rcache[RacePart].vals[k] = NoEntry

\* the record holds the status st next to the input of the second log call
Merged(rec, st) == rec.logged /\ rec.status = st /\ rec.has_input

Answered ==
    /\ pipe.caching
    /\ pc = "idle"
    /\ result.kind = "ret"
    /\ cur.rid # -1
    /\ ran[RootPath] = 0

\* C27: the record written at the root's path for a call that was answered
\* from the cache has the status cached, the input of the call and the output
\* that was returned
C27_HitRecorded ==
    Answered =>
        LET rec == progress[cur.rid][RootPath]
        IN  /\ rec.logged
            /\ rec.status = "cached"
            /\ rec.has_input
            /\ rec.input = cur.kw
            /\ rec.output = result.val

C27_HitUnmarked ==
    /\ Answered
    /\ progress[cur.rid][RootPath].status = "none"
    /\ progress[cur.rid][RootPath].has_input
    /\ progress[cur.rid][RootPath].input = cur.kw
    /\ progress[cur.rid][RootPath].output = result.val

(***************************************************************************)
(* Components of a type and of its subclass: the subclass inherits the     *)
(* descriptors, so both types carry the same Attr objects.                 *)
(***************************************************************************)
Family == {"Base", "Derived"}

\* base.py:931-958 Function.__init__: a new component of type T takes the place
\* of the observed one; the descriptors of the class stay as they are
NewInstance(T) ==
    /\ cls' = T
    /\ attrx' = [f \in Fields |-> Absent]
    /\ ffdepends' = [f \in Fields |-> [g \in Fields |-> NoId]]
    /\ cyclic' = {}
    /\ inRun' = FALSE
    /\ last' = NoOp
    /\ stale' = [f \in Fields |-> "never"]
    /\ UNCHANGED toCheck
    /\ UNCHANGED notAttr

InitShare == \E T \in Family : InitAttrOf(T)

NextShare ==
    \/ \E f \in Fields : Get(f)
    \/ \E f \in Fields : Set(f)
    \/ \E T \in Family : NewInstance(T)

SpecShare == InitShare /\ [][NextShare]_vars

ImplicitAuto(T) == {f \in CachedAuto(T) : SpecOf(T, f).deps = <<>>}

\* the other params and nodes declared on T
Siblings(T, f) == {g \in Fields : g # f /\ IsAttr(T, g)}

\* after an access of f by a component of type T the dependency set in use is
\* the set of the other fields declared on T
UsesSiblings ==
    (last.op = "get" /\ last.f \in ImplicitAuto(cls))
        => {toCheck[last.f][i] : i \in 1..Len(toCheck[last.f])} = Siblings(cls, last.f)

\* once f has been accessed, the assignment of a new value to another declared
\* field makes the next access of f invoke the callback once
SiblingInvalidates ==
    \A f \in ImplicitAuto(cls) :
        (GetStep(f) /\ stale[f] = "dirty") => (last'.err = "none" /\ last'.n = 1)

\* C28: for a cached auto-callback field without depends_on, an access by a
\* component of type T uses the other params and nodes declared on T as the
\* dependency set, and assigning any of them makes the next access recompute,
\* for the type and its subclass alike, whichever accessed the field first
C28_ImplicitDepends == []UsesSiblings /\ [][SiblingInvalidates]_vars

C28_SubclassStale ==
    /\ cls = "Derived"
    /\ toCheck["z"] = <<"x">>
    /\ last.op = "get" /\ last.f = "z" /\ last.err = "none" /\ last.n = 0
    /\ attrx["y"] # Absent
    /\ attrx["y"].v # SpecOf("Derived", "y").dflt

\* C29: between two operations on a component no field evaluation is in
\* progress and the in-flight set is empty, also after an evaluation that
\* ended with an exception; an access of the acyclic chain is then never
\* reported as cyclic
C29_InFlightEmpty ==
    /\ cyclic = {}
    /\ (cls = "Chain" /\ last.op = "get") => last.err # "cyclic"

C29_LeftInFlight ==
    /\ cls = "Chain"
    /\ last.op = "get"
    /\ last.err = "type"
    /\ last.f \in cyclic

(***************************************************************************)
(* A component with two cached auto-callback params without depends_on.    *)
(***************************************************************************)
InitTwo == InitAttrOf("TwoAuto")

SpecTwo == InitTwo /\ [][NextAttr]_vars

\* C30: in the type whose two cached auto-callback fields are computed from x
\* alone, no callback reads an auto-callback field, so every access of y and
\* of z returns what its callback gives for the current x and none raises
\* CyclicDependencyError
C30_NoFalseCycle ==
    (cls = "TwoAuto" /\ last.op = "get" /\ last.f \in {"y", "z"})
        => /\ last.err = "none"
           /\ last.v = CbApply(SpecOf(cls, last.f).fn, attrx["x"].v)

\* the callback of y ran once and returned, and the access was reported cyclic
C30_CycleByDiscovery ==
    /\ cls = "TwoAuto"
    /\ last.op = "get" /\ last.f = "y"
    /\ last.n = 1
    /\ last.err = "cyclic"
    /\ toCheck["y"] = <<"x", "z">>
    /\ toCheck["z"] = <<"x", "y">>

(***************************************************************************)
(* First access of a cached auto-callback field, for a type with siblings  *)
(* and for the type whose only field is the auto-callback field.           *)
(***************************************************************************)
InitFirst == \E T \in {"FlowDepend", "Lone"} : InitAttrOf(T)

SpecFirst == InitFirst /\ [][NextAttr]_vars

\* what the callback of the cached auto field z gives on a new component
FirstValue(T) == IF T = "Lone" THEN CbApply("seven", 0)
                 ELSE CbApply("mul3", CbApply("mul2", SpecOf(T, "x").dflt))

\* C31: the first access of a cached auto-callback field of a newly
\* constructed component invokes the callback exactly once and returns its
\* result, also when the field is the only declared field of the type
C31_FirstAccess ==
    [][\A f \in CachedAuto(cls) :
          (last.op = "none" /\ GetStep(f))
              => /\ last'.err = "none"
                 /\ last'.n = 1
                 /\ last'.v = FirstValue(cls)]_vars

\* the first access of the only field raised KeyError without invoking the
\* callback
C31_LoneKeyError ==
    /\ cls = "Lone"
    /\ last.op = "get" /\ last.f = "z"
    /\ last.err = "key"
    /\ last.n = 0
    /\ toCheck["z"] = <<>>
    /\ attrx["z"] = Absent

(***************************************************************************)
(* Runs of one root with publishing, its params changed between the runs;  *)
(* the descendants are never assigned.                                     *)
(***************************************************************************)
NextRepub ==
    \/ \E name \in PubParams : PubSet("root", name, MaxVal)
    \/ PubCall
    \/ \E c \in PubComps, name \in PubParams : PubGet(c, name)
    \/ PubEnd
    \/ PubRaise

SpecRepub == InitPub /\ [][NextRepub]_vars

\* the param has no default and no default_callback of its own
NoOwnValue(c, name) ==
    /\ PubDecl(c, name).declared
    /\ PubDecl(c, name).dflt = NoEntry
    /\ PubDecl(c, name).cb = NoEntry

\* C32: in every run of the root with publishing, the access of a param of a
\* descendant that has no value of its own gives the value the root published
\* in that run, also after the root's param was changed between two runs
C32_PublishedThisRun ==
    [][(running /\ running' /\ got'.comp # "root" /\ NoOwnValue(got'.comp, got'.name)
            /\ pubpart.vals[got'.name] # NoEntry)
          => got'.val = pubpart.vals[got'.name]]_vars

\* in a later run level2 still holds the value published in an earlier run
C32_StalePublished ==
    /\ running
    /\ got.comp = "level2" /\ got.name = "param1"
    /\ got.from = "assigned"
    /\ pubpart.vals["param1"] = MaxVal
    /\ got.val = PubDecl("root", "param1").dflt
    /\ pattrx["level2"]["param1"] = got.val

(***************************************************************************)
(* A component with caching whose declared param is assigned between      *)
(* calls.                                                                  *)
(***************************************************************************)
\* base.py:1155-1170 and 192-197: setattr(component, name, v) of a declared
\* param outside a call
SetParam(v) ==
    /\ pc = "idle"
    /\ v # pipe.param
    /\ pipe' = [pipe EXCEPT !.param = v]
    /\ UNCHANGED <<pc, pos, acc, cur, fl, called, tempkw, flowCtx, nodeGtr, progress,
                   fromRun, store, hasStore, cache, ran, ninv, returned, result, pool>>
    /\ UNCHANGED notCall

InitKey == AttrFresh("Flow") /\ CtxFresh("file") /\ ExtFresh("none") /\ CallFresh(Cached)

NextKey ==
    \/ NextCall
    \/ \E v \in 0..MaxVal : SetParam(v)

SpecKey == InitKey /\ [][NextKey]_vars

\* C33: a call is answered from the cache only if an earlier call of the same
\* component type with the same arguments and the same values of the declared
\* params has returned; after a param was changed the call with the same
\* arguments executes run again
C33_HitOnlySameDefinition == Answered => cur.prior

\* a call was answered with the output of a call whose argument was another
\* object
C33_HitOtherArgument ==
    /\ Answered
    /\ ~cur.prior
    /\ cur.y.kind = "obj"
    /\ \E a \in returned : a.param = pipe.param /\ a.y.kind = "obj" /\ a.y # cur.y

\* for arguments that are integers the claim holds
HitOnlySameForInts == (Answered /\ cur.y.kind = "int") => cur.prior

\* a call with a new value of the param ran again
RanAfterSetParam ==
    /\ pc = "idle" /\ result.kind = "ret" /\ ran[RootPath] = 1
    /\ \E a \in returned : a.y = cur.y /\ a.param # pipe.param

\* C34: with publishing, whenever no call of the root is in progress, so after
\* every call that returned and after every call that raised, the published
\* partition holds no value
C34_PublishedCleared ==
    ~running => \A name \in PubParams : pubpart.vals[name] = NoEntry

\* the call has ended and the values it published are still in the partition
C34_LeftPublished ==
    /\ ~running
    /\ pubpart.exists
    /\ pubpart.vals["param1"] = PubDecl("root", "param1").dflt
    /\ pattrx["root"]["param1"] = PubDecl("root", "param1").dflt

(***************************************************************************)
(* Run-time overrides: the persistent map set with set_run and the         *)
(* one-shot map passed with a call.                                        *)
(***************************************************************************)
\* base.py:1306-1334 Function.set_run(kwargs) outside a call: the value goes
\* to __ff_run_kwargs__
SetRun(v) ==
    /\ pc = "idle"
    /\ pipe' = [pipe EXCEPT !.run_kwargs = v]
    /\ UNCHANGED <<pc, pos, acc, cur, fl, called, tempkw, flowCtx, nodeGtr, progress,
                   fromRun, store, hasStore, cache, ran, ninv, returned, result, pool>>
    /\ UNCHANGED notCall

InitRunKw == AttrFresh("Flow") /\ CtxFresh("file") /\ ExtFresh("none") /\ CallFresh(Dup)

NextRunKw ==
    \/ NextCall
    \/ SetRun(IntVal(MaxArg + 1))

SpecRunKw == InitRunKw /\ [][NextRunKw]_vars

\* C35: the keyword arguments run receives are those of the call overlaid by
\* the persistent overrides and then by the one-shot overrides of the call;
\* when the call is over the one-shot map is empty and the persistent map is
\* as it was
C35_OverrideOrder ==
    [][/\ (pc = "idle" /\ pc' = "run")
            => acc' = Overlay(Overlay(cur'.y, pipe.run_kwargs), cur'.rk)
       /\ (pc' = "idle" /\ cur' # cur) => tempkw' = NoVal
       /\ (pc' = "idle" /\ pc # "idle") => tempkw' = NoVal
       /\ pc # "idle" => pipe'.run_kwargs = pipe.run_kwargs]_vars

\* run received the one-shot override of an earlier call that had raised
C35_LeftOverOverride ==
    /\ ran[RootPath] = 1
    /\ cur.rk = NoVal
    /\ cur.kw = IntVal(MaxArg)
    /\ cur.kw # Overlay(cur.y, pipe.run_kwargs)

NextDelete ==
    \/ \E f \in Fields : Get(f)
    \/ \E f \in Fields : Set(f)
    \/ \E f \in Fields : Delete(f)

SpecDelete == InitDepend /\ [][NextDelete]_vars

\* the step is a delete of field f by the caller
DeleteStep(f) == last'.op = "delete" /\ last'.f = f

\* C37 as stated: the delete of a field that holds a value removes the value,
\* and the get that follows a delete resolves the field anew, for an
\* auto-callback field by invoking its callback again
C37_DeleteRecomputes ==
    [][\A f \in Declared(cls) :
          /\ (DeleteStep(f) /\ attrx[f] # Absent) => attrx'[f] = Absent
          /\ (last.op = "delete" /\ last.f = f /\ GetStep(f) /\ IsAuto(cls, f))
                => last'.n = 1]_vars

\* C37 amended: the delete of a field without auto_callback removes the stored
\* value, and the get that follows takes the fixed default again or invokes
\* the default_callback again; the delete of a field that holds no value
\* changes nothing; the delete of an auto-callback field raises ValueError and
\* leaves the cached value in place
C37_DeleteResets ==
    [][\A f \in Declared(cls) :
          /\ (DeleteStep(f) /\ ~IsAuto(cls, f))
                => /\ last'.err = "none"
                   /\ attrx'[f] = Absent
                   /\ attrx[f] = Absent => (attrx' = attrx /\ ffdepends' = ffdepends)
          /\ (DeleteStep(f) /\ IsAuto(cls, f))
                => /\ last'.err = "value"
                   /\ attrx' = attrx /\ ffdepends' = ffdepends
          /\ (last.op = "delete" /\ last.err = "none" /\ last.f = f /\ GetStep(f))
                => /\ last'.err = "none"
                   /\ SpecOf(cls, f).kind = "fixed" => last'.v = SpecOf(cls, f).dflt
                   /\ SpecOf(cls, f).kind = "defcb" => last'.n = 1]_vars

\* the delete of the cached z was refused and its value is still stored
C37_AutoDeleteRefused ==
    /\ cls = "FlowDepend"
    /\ last.op = "delete" /\ last.f = "z" /\ last.err = "value"
    /\ attrx["z"] # Absent
    /\ ffdepends["z"]["y"] # NoId

(***************************************************************************)
(* Listing the partitions (context.py:149-166).                            *)
(***************************************************************************)
\* the cache key under which create_context records the names (context.py:32, 145)
AllContextsKey == "__all_contexts__"

\* cache get(name, default) as Context calls it: the list under
\* "__all_contexts__", the content of a partition, else the default
StoreCacheGet(st, al, key, default) ==
    IF key = AllContextsKey THEN al
    ELSE IF key \in Contexts /\ st[key].exists THEN st[key].vals
    ELSE default

\* context.py:149-155 Context.get_all_contexts_keys
get_all_contexts_keys(st, al) == StoreCacheGet(st, al, "__all_contexts", <<>>)

\* context.py:157-166 Context.get_all_contexts: the content of every listed key
get_all_contexts(st, al) ==
    [c \in {get_all_contexts_keys(st, al)[i] : i \in 1..Len(get_all_contexts_keys(st, al))}
        |-> CtxGetFrom(st, al, c, "*").cache[c].vals]

\* context.py:149 context.get_all_contexts_keys()
StoreKeys ==
    /\ cop' = CtxOp("keys", GlobalKey, FALSE,
                    Outcome("none", get_all_contexts_keys(cstore, allctx), cstore, allctx))
    /\ UNCHANGED <<cstore, allctx>>
    /\ UNCHANGED notStore

\* context.py:157 context.get_all_contexts()
StoreAll ==
    /\ cop' = CtxOp("all", GlobalKey, FALSE,
                    Outcome("none", get_all_contexts(cstore, allctx), cstore, allctx))
    /\ UNCHANGED <<cstore, allctx>>
    /\ UNCHANGED notStore

NextList == NextStore \/ StoreKeys \/ StoreAll

SpecList == InitStore /\ [][NextList]_vars

\* the partitions that create_context has created
CreatedNames == {c \in Contexts \ {GlobalKey} : cstore[c].exists}

\* C38: get_all_contexts_keys returns exactly the names of the partitions
\* created so far by create_context, each listed once, and get_all_contexts
\* returns the contents of exactly those partitions.
C38_AllContextsListed ==
    /\ cop.op = "keys"
        => /\ {cop.ret[i] : i \in 1..Len(cop.ret)} = CreatedNames
           /\ Len(cop.ret) = Cardinality(CreatedNames)
    /\ cop.op = "all"
        => /\ DOMAIN cop.ret = CreatedNames
           /\ \A c \in CreatedNames : cop.ret[c] = cstore[c].vals

\* a partition was created and recorded under "__all_contexts__", and
\* get_all_contexts_keys returned the empty list
C38_CreatedNotListed ==
    /\ cop.op = "keys"
    /\ cstore["F|0"].exists
    /\ allctx = <<"F|0">>
    /\ cop.ret = <<>>

(***************************************************************************)
(* A cache key that cannot be built (middleware.py:179-186).               *)
(***************************************************************************)
NextKeyFail ==
    \/ NextCall
    \/ \E v \in {0, Lambda} : SetParam(v)

SpecKeyFail == InitKey /\ [][NextKeyFail]_vars

\* C39: when the cache key of a call cannot be built, the call that passed
\* the checks of __call__ executes run, once; what run returns is the result
\* of the call and what it raises is the exception of the call; and nothing
\* is stored in the cache
C39_KeyFailureFallsThrough ==
    [][(pipe.caching /\ pipe.param = Lambda /\ pipe' = pipe) =>
          /\ cache' = cache
          /\ (pc = "idle" /\ cur' # NoCall) => (pc' = "run" /\ ran'[RootPath] = 1)
          /\ (pc = "run" /\ pc' = "idle")
                => (result' = [kind |-> "ret", val |-> acc, err |-> NoName]
                    /\ ran'[RootPath] = 1)
          /\ (pc = "raised" /\ pc' = "idle")
                => (result'.kind = "err" /\ result'.err = result.err
                    /\ ran'[RootPath] = 1)]_vars

\* a call whose key could not be built returned after executing run, although
\* a call with the same arguments and the same params had returned before,
\* and the cache is empty
C39_RanWithoutKey ==
    /\ pipe.caching /\ pipe.param = Lambda
    /\ pc = "idle" /\ result.kind = "ret"
    /\ ran[RootPath] = 1
    /\ cur.prior
    /\ cache = {}

(***************************************************************************)
(* has_cycle as a depth-first walk (debug.py:7-30).                        *)
(***************************************************************************)
\* the state of the walk: the sets visited and path, and what the latest
\* visit returned
NoWalk == [ret |-> FALSE, visited |-> {}, path |-> {}]

\* debug.py:24 graph.get(vertex, [])
Neighbours(G, v) == G.adj[v]

\* debug.py:21-22 visited.add(vertex); path.add(vertex)
Enter(st, v) == [ret |-> FALSE, visited |-> st.visited \cup {v}, path |-> st.path \cup {v}]

\* a visit that returns without taking the vertex off the path
LeaveOnPath(st, v) == [st EXCEPT !.ret = FALSE]

\* debug.py:27-28 path.remove(vertex); return False
Leave(st, v) == [st EXCEPT !.ret = FALSE, !.path = @ \ {v}]

RECURSIVE visit(_, _, _), VisitFrom(_, _, _, _)

\* debug.py:25-26 after visit(neighbour) returned r: return True, or go on
\* with the next neighbour
VisitNext(G, r, v, i) == IF r.ret THEN r ELSE VisitFrom(G, r, v, i + 1)

\* debug.py:24-28 the loop over the neighbours of v, from the i-th on
VisitFrom(G, st, v, i) ==
    IF i > Len(Neighbours(G, v)) THEN Leave(st, v)
    ELSE IF Neighbours(G, v)[i] \in st.path THEN [st EXCEPT !.ret = TRUE]
    ELSE VisitNext(G, visit(G, st, Neighbours(G, v)[i]), v, i)

\* debug.py:19-28 visit(vertex)
visit(G, st, v) ==
    IF v \in st.visited THEN [st EXCEPT !.ret = FALSE]
    ELSE VisitFrom(G, Enter(st, v), v, 1)

RECURSIVE AnyVisit(_, _, _)

\* debug.py:30 any(...) after visit(v) returned r for the k-th key
AnyNext(G, r, k) == IF r.ret THEN TRUE ELSE AnyVisit(G, r, k + 1)

\* debug.py:30 any(visit(v) for v in graph), from the k-th key on
AnyVisit(G, st, k) ==
    IF k > Len(G.keys) THEN FALSE
    ELSE AnyNext(G, visit(G, st, G.keys[k]), k)

\* debug.py:7-30 has_cycle(graph)
HasCycleWalk(G) == AnyVisit(G, NoWalk, 1)

\* the keys of a graph, in the order in which the dict lists them: the
\* first n vertices
KeyOrders == {[i \in 1..n |-> i] : n \in 0..MaxVertex}

\* the lowest and the highest vertex of a set
Lowest1(S) == CHOOSE x \in S : \A y \in S : x <= y

Highest1(S) == CHOOSE x \in S : \A y \in S : x >= y

RECURSIVE Listed(_, _)

\* the list of the vertices of S, in ascending order when up and in
\* descending order otherwise
Listed(S, up) ==
    IF S = {} THEN <<>>
    ELSE IF up THEN <<Lowest1(S)>> \o Listed(S \ {Lowest1(S)}, up)
    ELSE <<Highest1(S)>> \o Listed(S \ {Highest1(S)}, up)

\* a graph given to has_cycle with the keys ks: the neighbours nb[v] of a
\* key are any vertices, all lists ascending or all descending; a vertex that
\* is no key has no list
IsDigraph(ks, nb) == \A v \in Vertices : (\A i \in DOMAIN ks : ks[i] # v) => nb[v] = {}

Digraph(ks, nb, up) == [keys |-> ks, adj |-> [v \in Vertices |-> Listed(nb[v], up)]]

\* debug.py:7 has_cycle(graph) is called and returns
HasCycleCall ==
    /\ answer = "none"
    /\ answer' = IF HasCycleWalk(digraph) THEN "True" ELSE "False"
    /\ UNCHANGED digraph
    /\ UNCHANGED notWalk

InitWalk ==
    /\ Rest /\ ExtFresh("walk")
    /\ \E ks \in KeyOrders, nb \in [Vertices -> SUBSET Vertices], up \in BOOLEAN :
          /\ IsDigraph(ks, nb)
          /\ digraph = Digraph(ks, nb, up)
    /\ answer = "none"

NextWalk == HasCycleCall

SpecWalk == InitWalk /\ [][NextWalk]_vars

\* the successors of each vertex
Successors(G) == [v \in Vertices |-> {G.adj[v][i] : i \in DOMAIN G.adj[v]}]

\* some vertex reaches itself along one or more edges
DirectedCycle(G) ==
    \E v \in Vertices : v \in Visit(Successors(G), Successors(G)[v], MaxVertex)

\* C40: has_cycle returns True exactly when the graph contains a directed
\* cycle, self-loops and cycles reached only from later-listed vertices
\* included, and False otherwise
C40_HasCycleExact ==
    answer # "none" => (answer = "True") = DirectedCycle(digraph)

\* has_cycle returned True for a graph whose first two keys reach no cycle
\* and whose last key has a self-loop
C40_LaterSelfLoop ==
    /\ answer = "True"
    /\ Len(digraph.keys) = 3
    /\ digraph.adj[digraph.keys[1]] = <<digraph.keys[2]>>
    /\ digraph.adj[digraph.keys[2]] = <<>>
    /\ digraph.adj[digraph.keys[3]] = <<digraph.keys[3]>>

====
